---- MODULE Spec2Model ----
(***************************************************************************)
(* A model of the RAG retrieval subsystem of the multi-agent chatbot:      *)
(* the per-tenant vector store (src/rag/vector_store.py), the chunker      *)
(* (src/rag/document_processor.py), the tenant store                       *)
(* (src/storage/tenant_manager.py), the retriever (src/rag/retriever.py)   *)
(* and the agent router (src/controller/agent_controller.py).              *)
(*                                                                         *)
(* Texts are sequences of units: 0 is a whitespace character, 1 and 2 are  *)
(* letters.  Python's 0-based positions are kept 1-based, as TLA+          *)
(* sequences are.                                                          *)
(***************************************************************************)
EXTENDS Integers, Sequences, FiniteSets, TLC

VARIABLES
    embedding_model,   \* VectorStore.embedding_model: TRUE when the model loaded
    tenant_indices,    \* VectorStore.tenant_indices: tenant -> sequence of embeddings
    tenant_metadata,   \* VectorStore.tenant_metadata: tenant -> sequence of entries
    tenants,           \* TenantManager.tenants: tenant -> TenantInfo
    documents,         \* TenantManager.documents: tenant -> sequence of DocumentInfo
    blobs,             \* the files under tenant_storage/<tenant>/: path -> bytes
    saved_data,        \* tenants.json and documents.json as _save_data last wrote them
    state,             \* the AgentState the graph of the controller passes along
    pc,                \* the node of the graph a process_message call is at
    returned,          \* what the last process_message call returned
    trace,             \* history: the nodes the call ran, in order
    disk,              \* vector_store/: the index and metadata files, by tenant
    agent_store,       \* the VectorStore and the catalog the Document Q&A agent holds
    app_tm,            \* the TenantManager the application constructs for itself
    deleted,           \* history: <<tenant, filename>> deleted and not added since
    last               \* history: the last call, its arguments and what it returned

vsVars == <<embedding_model, tenant_indices, tenant_metadata, disk>>
peerVars == <<agent_store, app_tm>>
tmVars == <<tenants, documents, blobs, saved_data>>
routerVars == <<state, pc, returned, trace>>
vars == <<embedding_model, tenant_indices, tenant_metadata, tenants, documents, blobs,
          saved_data, state, pc, returned, trace, disk, agent_store, app_tm, deleted, last>>

(***************************************************************************)
(* Bounds of the model.                                                    *)
(***************************************************************************)
MaxEntries == 2        \* the entries the store holds in all, over its tenants

Tenants == {"t1", "t2"}
Files == {"a.txt", "b.txt"}
\* the files each tenant uploads: two files of one tenant, and a file of the
\* same name in another
Uploads == {<<"t1", "a.txt">>, <<"t1", "b.txt">>, <<"t2", "a.txt">>}
\* <<replace_existing, clear_all>> as add_documents is called
Flags == {<<TRUE, FALSE>>, <<FALSE, FALSE>>, <<TRUE, TRUE>>}
Docs == {<<0>>, <<1>>, <<2, 2, 0, 1>>}          \* file contents
Queries == {<<1>>, <<2, 2, 0, 1>>}
Ks == {1, 2}                                    \* the k a search is called with

\* DocumentProcessor.__init__: chunk_size and chunk_overlap, scaled down
ChunkSize == 3
ChunkOverlap == 1

Min(a, b) == IF a < b THEN a ELSE b
Max(a, b) == IF a > b THEN a ELSE b

\* dict[k] = v and del dict[k]
Put(d, k, v) == [x \in (DOMAIN d) \cup {k} |-> IF x = k THEN v ELSE d[x]]
Drop(d, k) == [x \in (DOMAIN d) \ {k} |-> d[x]]

\* s[i:j] of Python, i and j 0-based
Slice(s, i, j) == SubSeq(s, i + 1, Min(j, Len(s)))

(***************************************************************************)
(* The chunker.                                                            *)
(***************************************************************************)
\* not text.strip()
IsBlank(text) == \A i \in 1..Len(text) : text[i] = 0

\* a faulty variant: the window advances by its whole size
SlidingWindowWithoutOverlap(units, chunk_size, chunk_overlap) ==
    LET n == (Len(units) + chunk_size - 1) \div chunk_size
    IN [c \in 1..n |-> Slice(units, (c - 1) * chunk_size, c * chunk_size)]

\* range(0, len(units), chunk_size - chunk_overlap), units[i:i + chunk_size]:
\* the loop of both chunkers, over characters or over tokens
SlidingWindow(units, chunk_size, chunk_overlap) ==
    LET step == chunk_size - chunk_overlap
        n == (Len(units) + step - 1) \div step
    IN [c \in 1..n |-> Slice(units, (c - 1) * step, (c - 1) * step + chunk_size)]

\* _character_based_chunking of the processor the retriever constructs
CharacterBasedChunking(text) == SlidingWindow(text, ChunkSize, ChunkOverlap)

\* tokenizer.encode: a token is a run of characters; here the pair 2 2 is one
\* token and every other character a token of its own
RECURSIVE TokenizerEncode(_)
TokenizerEncode(text) ==
    IF text = <<>> THEN <<>>
    ELSE IF Len(text) >= 2 /\ text[1] = 2 /\ text[2] = 2
    THEN <<(<<2, 2>>)>> \o TokenizerEncode(SubSeq(text, 3, Len(text)))
    ELSE <<(<<Head(text)>>)>> \o TokenizerEncode(Tail(text))

\* tokenizer.decode: the characters of the tokens, joined
RECURSIVE TokenizerDecode(_)
TokenizerDecode(tokens) ==
    IF tokens = <<>> THEN <<>> ELSE Head(tokens) \o TokenizerDecode(Tail(tokens))

\* encode_fails: tokenizer.encode raises, and the characters are chunked.
\* units: what the window slid over; windows: its slices; chunks: the texts
TokenBasedChunking(text, chunk_size, chunk_overlap, encode_fails) ==
    IF encode_fails
    THEN [units |-> text, windows |-> SlidingWindow(text, chunk_size, chunk_overlap),
          chunks |-> SlidingWindow(text, chunk_size, chunk_overlap)]
    ELSE LET tokens == TokenizerEncode(text)
             windows == SlidingWindow(tokens, chunk_size, chunk_overlap)
         IN [units |-> tokens, windows |-> windows,
             chunks |-> [c \in 1..Len(windows) |-> TokenizerDecode(windows[c])]]

CreateChunks(text, filename, tenant_id, page_number) ==
    IF IsBlank(text) THEN <<>>
    ELSE LET chunks_text == CharacterBasedChunking(text)
         IN [c \in 1..Len(chunks_text) |->
                [content |-> chunks_text[c],
                 metadata |-> [filename |-> filename, tenant_id |-> tenant_id,
                               page_number |-> page_number, chunk_index |-> c - 1,
                               total_chunks |-> Len(chunks_text)],
                 chunk_id |-> <<tenant_id, filename, page_number, c - 1>>,
                 source |-> filename]]

\* the text of the placeholder page of an unsupported file type
UnsupportedText == <<1, 1>>

\* the texts of the other placeholder pages: the text file that does not
\* decode, the PDF without text, the PDF that cannot be read, and what goes
\* before the text found in a PDF that cannot be read
Placeholders == [text_error |-> <<9>>, pdf_no_text |-> <<8>>, pdf_unable |-> <<7>>, pdf_found |-> <<6>>]

\* str.strip(): the text without the blanks at its ends
RECURSIVE Strip(_)
Strip(text) ==
    IF text = <<>> THEN <<>>
    ELSE IF Head(text) = 0 THEN Strip(Tail(text))
    ELSE IF text[Len(text)] = 0 THEN Strip(SubSeq(text, 1, Len(text) - 1))
    ELSE text

\* bytes.decode('utf-8') raises on a byte that is no UTF-8: the byte 3
Decodes(file_content) == \A i \in 1..Len(file_content) : file_content[i] # 3

\* bytes.decode('utf-8', errors='ignore') drops such bytes
DecodeIgnoringErrors(file_content) == SelectSeq(file_content, LAMBDA b : b # 3)

\* len(content_str.strip()) > 10, scaled down
FoundTextThreshold == 1

\* pdf: what PyPDF2 makes of the bytes: it raises (fails), or gives the text
\* of each page
ExtractPdfText(file_content, filename, pdf) ==
    IF ~pdf.fails
    THEN LET numbered == [i \in 1..Len(pdf.pages) |-> [content |-> pdf.pages[i], page |-> i]]
             pages_content == SelectSeq(numbered, LAMBDA p : ~IsBlank(p.content))
         IN IF pages_content # <<>> THEN pages_content
            ELSE <<[content |-> Placeholders.pdf_no_text, page |-> 1]>>
    ELSE LET content_str == DecodeIgnoringErrors(file_content)
         IN IF Len(Strip(content_str)) > FoundTextThreshold
            THEN <<[content |-> Placeholders.pdf_found \o content_str, page |-> 1]>>
            ELSE <<[content |-> Placeholders.pdf_unable, page |-> 1]>>

\* a faulty variant: the text that does not decode gives no page
ExtractTextContentUncaught(file_content, filename) ==
    IF Decodes(file_content) THEN <<[content |-> file_content, page |-> 1]>>
    ELSE <<>>

ExtractTextContent(file_content, filename) ==
    IF Decodes(file_content) THEN <<[content |-> file_content, page |-> 1]>>
    ELSE <<[content |-> Placeholders.text_error, page |-> 1]>>

\* lines 38-48: the pages of the file, by its type
TextContent(file_content, filename, file_type, pdf) ==
    IF file_type = "application/pdf" THEN ExtractPdfText(file_content, filename, pdf)
    ELSE IF file_type = "text/plain" THEN ExtractTextContent(file_content, filename)
    ELSE <<[content |-> UnsupportedText, page |-> 1]>>

\* lines 50-58: the chunks of every page, in the order of the pages
RECURSIVE ChunksOfPages(_, _, _)
ChunksOfPages(text_content, filename, tenant_id) ==
    IF text_content = <<>> THEN <<>>
    ELSE CreateChunks(Head(text_content).content, filename, tenant_id, Head(text_content).page)
         \o ChunksOfPages(Tail(text_content), filename, tenant_id)

\* a PDF that PyPDF2 does not read
UnreadPdf == [fails |-> TRUE, pages |-> <<>>]

ProcessFile(file_content, filename, file_type, tenant_id) ==
    ChunksOfPages(TextContent(file_content, filename, file_type, UnreadPdf), filename, tenant_id)

(***************************************************************************)
(* Embeddings: encode() maps a text to a vector, here the numbers of 1s    *)
(* and of 2s in it; IndexFlatIP scores by inner product.                   *)
(***************************************************************************)
RECURSIVE CountUnit(_, _)
CountUnit(text, u) ==
    IF text = <<>> THEN 0
    ELSE (IF Head(text) = u THEN 1 ELSE 0) + CountUnit(Tail(text), u)

Encode(text) == <<CountUnit(text, 1), CountUnit(text, 2)>>

InnerProduct(x, y) == x[1] * y[1] + x[2] * y[2]

\* the entry add_documents appends for a chunk
MetadataOf(chunk) ==
    [chunk_id |-> chunk.chunk_id, content |-> chunk.content,
     source |-> chunk.source, metadata |-> chunk.metadata]

EmbeddingsOf(chunks) == [i \in 1..Len(chunks) |-> Encode(chunks[i].content)]
EntriesOf(chunks) == [i \in 1..Len(chunks) |-> MetadataOf(chunks[i])]

\* the store as a value: the two dictionaries
Store == [idx |-> tenant_indices, meta |-> tenant_metadata]

(***************************************************************************)
(* The vector store.  Its operations are operators on the store value st   *)
(* that return the new store and the call's result, so that add_documents  *)
(* can call _remove_documents_by_filename.                                 *)
(***************************************************************************)
\* a faulty variant: every position is kept, the file's own too
KeepEveryPosition(md, filename) == [i \in 1..Len(md) |-> i]

\* the positions, in order, of the entries whose source is not filename
KeepPositions(md, filename) ==
    SelectSeq([i \in 1..Len(md) |-> i], LAMBDA i : md[i].source # filename)

\* self.tenant_indices[t] = index; self.tenant_metadata[t] = md
SetTenant(st, tenant_id, index, md) ==
    [idx |-> Put(st.idx, tenant_id, index), meta |-> Put(st.meta, tenant_id, md)]

\* lines 252-268: the rebuild of the index from the kept positions.
\* failing: the positions at which old_index.reconstruct raises; it raises
\* past the end of the index too
RebuildIndex(st, tenant_id, md, indices_to_keep, old_index, failing) ==
    SetTenant(st, tenant_id,
        LET got == SelectSeq(indices_to_keep,
                       LAMBDA p : p <= Len(old_index) /\ p \notin failing)
        IN [j \in 1..Len(got) |-> old_index[got[j]]],
        [j \in 1..Len(indices_to_keep) |-> md[indices_to_keep[j]]])

RemoveKept(st, tenant_id, md, indices_to_keep, failing) ==
    IF Len(md) - Len(indices_to_keep) = 0 THEN [st |-> st, ret |-> TRUE]
    ELSE IF Len(indices_to_keep) = 0
    THEN [st |-> SetTenant(st, tenant_id, <<>>, <<>>), ret |-> TRUE]
    ELSE IF tenant_id \notin DOMAIN st.idx
    THEN [st |-> st, ret |-> FALSE]                  \* KeyError, caught
    ELSE [st |-> RebuildIndex(st, tenant_id, md, indices_to_keep,
                              st.idx[tenant_id], failing),
          ret |-> TRUE]

RemoveDocumentsByFilename(st, filename, tenant_id, failing) ==
    IF tenant_id \notin DOMAIN st.meta THEN [st |-> st, ret |-> TRUE]
    ELSE RemoveKept(st, tenant_id, st.meta[tenant_id],
                    KeepPositions(st.meta[tenant_id], filename), failing)

\* lines 56-72: embed the chunks and append them.
\* embed_fails: encode() or index.add() raises
AppendChunks(st, chunks, tenant_id, embed_fails) ==
    IF embed_fails THEN [st |-> st, ret |-> FALSE]
    ELSE IF tenant_id \notin DOMAIN st.meta
    THEN [st |-> [idx |-> Put(st.idx, tenant_id, st.idx[tenant_id] \o EmbeddingsOf(chunks)),
                  meta |-> st.meta],
          ret |-> FALSE]                             \* KeyError at append, caught
    ELSE [st |-> SetTenant(st, tenant_id, st.idx[tenant_id] \o EmbeddingsOf(chunks),
                           st.meta[tenant_id] \o EntriesOf(chunks)),
          ret |-> TRUE]

\* a faulty variant: replace_existing is ignored
PrepareTenantKeepingFile(st, chunks, tenant_id, replace_existing, clear_all, failing) ==
    IF clear_all \/ tenant_id \notin DOMAIN st.idx
    THEN SetTenant(st, tenant_id, <<>>, <<>>)
    ELSE st

\* lines 45-54: the tenant's index is created, cleared, or rid of the file
PrepareTenant(st, chunks, tenant_id, replace_existing, clear_all, failing) ==
    IF clear_all \/ tenant_id \notin DOMAIN st.idx
    THEN SetTenant(st, tenant_id, <<>>, <<>>)
    ELSE IF replace_existing
    THEN RemoveDocumentsByFilename(st, chunks[1].source, tenant_id, failing).st
    ELSE st

AddDocuments(st, model, chunks, tenant_id, replace_existing, clear_all, failing, embed_fails) ==
    IF ~model \/ chunks = <<>> THEN [st |-> st, ret |-> FALSE]
    ELSE AppendChunks(PrepareTenant(st, chunks, tenant_id, replace_existing, clear_all,
                                    failing),
                      chunks, tenant_id, embed_fails)

ClearAllDocuments(st, tenant_id) ==
    [st |-> SetTenant(st, tenant_id, <<>>, <<>>), ret |-> TRUE]

\* a faulty variant: every tenant's data is dropped
DeleteEveryTenantData(st, tenant_id) ==
    [st |-> [idx |-> [x \in {} |-> <<>>], meta |-> [x \in {} |-> <<>>]], ret |-> TRUE]

DeleteTenantData(st, tenant_id) ==
    [st |-> [idx |-> Drop(st.idx, tenant_id), meta |-> Drop(st.meta, tenant_id)],
     ret |-> TRUE]

Sources(md) == {md[i].source : i \in 1..Len(md)}

GetTenantStats(st, tenant_id) ==
    IF tenant_id \notin DOMAIN st.idx
    THEN [documents |-> 0, chunks |-> 0, files |-> {}]
    ELSE [documents |-> Cardinality(Sources(st.meta[tenant_id])),
          chunks |-> Len(st.meta[tenant_id]),
          files |-> Sources(st.meta[tenant_id])]

(***************************************************************************)
(* Search.  A metadata filter is a dictionary from a key to a condition    *)
(* [list |-> is the value a list, value |-> the value or the set of the    *)
(* list's elements]; NoFilter is None or the empty dictionary.             *)
(***************************************************************************)
NoFilter == [x \in {} |-> 0]

\* a faulty variant: a filter value that is a list lets every result pass
MatchesFilterIgnoringLists(result, filter_dict) ==
    \A key \in DOMAIN filter_dict :
        /\ key \in DOMAIN result
        /\ filter_dict[key].list \/ result[key] = filter_dict[key].value

MatchesFilter(result, filter_dict) ==
    \A key \in DOMAIN filter_dict :
        /\ key \in DOMAIN result
        /\ IF filter_dict[key].list
           THEN result[key] \in filter_dict[key].value
           ELSE result[key] = filter_dict[key].value

\* the orders in which index.search may return every position of the index
\* for the query: by descending inner product, ties in any order
Rankings(index, query) ==
    LET n == Len(index)
        score(p) == InnerProduct(Encode(query), index[p])
    IN {r \in [1..n -> 1..n] :
            /\ \A i, j \in 1..n : i # j => r[i] # r[j]
            /\ \A i, j \in 1..n : i < j => score(r[i]) >= score(r[j])}

Search(st, model, query, tenant_id, k, metadata_filter, ranking) ==
    IF ~model \/ tenant_id \notin DOMAIN st.idx THEN <<>>
    ELSE IF tenant_id \notin DOMAIN st.meta THEN <<>>      \* KeyError, caught
    ELSE LET index == st.idx[tenant_id]
             md == st.meta[tenant_id]
             found == SubSeq(ranking, 1, Min(k * 2, Len(index)))
             result(p) == [chunk_id |-> md[p].chunk_id, content |-> md[p].content,
                           source |-> md[p].source, metadata |-> md[p].metadata,
                           score |-> InnerProduct(Encode(query), index[p])]
             hits == SelectSeq(found,
                        LAMBDA p : p <= Len(md) /\ MatchesFilter(result(p), metadata_filter))
         IN [i \in 1..Min(k, Len(hits)) |-> result(hits[i])]

\* query.lower().split(): the maximal runs of letters
RECURSIVE SplitWords(_, _)
SplitWords(text, word) ==
    IF text = <<>> THEN (IF word = <<>> THEN {} ELSE {word})
    ELSE IF Head(text) = 0
    THEN (IF word = <<>> THEN {} ELSE {word}) \cup SplitWords(Tail(text), <<>>)
    ELSE SplitWords(Tail(text), Append(word, Head(text)))

Words(text) == SplitWords(text, <<>>)

\* list.sort(key = hybrid_score, reverse = True): stable, descending
RECURSIVE InsertByScore(_, _)
InsertByScore(sorted, r) ==
    IF sorted = <<>> THEN <<r>>
    ELSE IF Head(sorted).hybrid_score >= r.hybrid_score
    THEN <<Head(sorted)>> \o InsertByScore(Tail(sorted), r)
    ELSE <<r>> \o sorted

RECURSIVE SortByHybridScore(_)
SortByHybridScore(results) ==
    IF results = <<>> THEN <<>>
    ELSE InsertByScore(SortByHybridScore(SubSeq(results, 1, Len(results) - 1)),
                       results[Len(results)])

\* a faulty variant: the two weights are exchanged
HybridSearchWeightsExchanged(st, model, query, tenant_id, k, metadata_filter, keyword_weight, ranking) ==
    LET semantic_results == Search(st, model, query, tenant_id, k * 2, metadata_filter, ranking)
        query_words == Words(query)
        scored == [i \in 1..Len(semantic_results) |->
            LET r == semantic_results[i]
                keyword_score == Cardinality(query_words \cap Words(r.content))
            IN [chunk_id |-> r.chunk_id, content |-> r.content, source |-> r.source,
                metadata |-> r.metadata, score |-> r.score,
                hybrid_score |-> keyword_weight * r.score * Cardinality(query_words)
                                 + (10 - keyword_weight) * keyword_score,
                keyword_score |-> keyword_score]]
    IN IF semantic_results # <<>> /\ query_words = {}
       THEN [raised |-> TRUE, results |-> <<>>]
       ELSE [raised |-> FALSE,
             results |-> SubSeq(SortByHybridScore(scored), 1, Min(k, Len(scored)))]

\* keyword_weight is in tenths; the scores are kept as numerators over
\* 10 * |query_words|: keyword_score over |query_words|
HybridSearch(st, model, query, tenant_id, k, metadata_filter, keyword_weight, ranking) ==
    LET semantic_results == Search(st, model, query, tenant_id, k * 2, metadata_filter, ranking)
        query_words == Words(query)
        scored == [i \in 1..Len(semantic_results) |->
            LET r == semantic_results[i]
                keyword_score == Cardinality(query_words \cap Words(r.content))
            IN [chunk_id |-> r.chunk_id, content |-> r.content, source |-> r.source,
                metadata |-> r.metadata, score |-> r.score,
                hybrid_score |-> (10 - keyword_weight) * r.score * Cardinality(query_words)
                                 + keyword_weight * keyword_score,
                keyword_score |-> keyword_score]]
    IN IF semantic_results # <<>> /\ query_words = {}
       THEN [raised |-> TRUE, results |-> <<>>]          \* ZeroDivisionError
       ELSE [raised |-> FALSE,
             results |-> SubSeq(SortByHybridScore(scored), 1, Min(k, Len(scored)))]

(***************************************************************************)
(* The tenant store.  Its operations are operators on the value tm of the  *)
(* manager's dictionaries and files; a path is <<tenant, filename>>.       *)
(* Timestamps and e-mail addresses are left out.                           *)
(***************************************************************************)
TenantInfo(tenant_id, name) ==
    [tenant_id |-> tenant_id, name |-> name, document_count |-> 0, total_chunks |-> 0]

DocumentInfo(filename, tenant_id, file_type, file_size, chunks_created) ==
    [filename |-> filename, tenant_id |-> tenant_id, file_type |-> file_type,
     file_size |-> file_size, chunks_created |-> chunks_created,
     file_path |-> <<tenant_id, filename>>]

\* the manager as a value
TM == [tenants |-> tenants, documents |-> documents, blobs |-> blobs, saved |-> saved_data]

SaveData(tm) == [tm EXCEPT !.saved = [tenants |-> tm.tenants, documents |-> tm.documents]]

\* self.documents.get(tenant_id, [])
GetTenantDocuments(tm, tenant_id) ==
    IF tenant_id \in DOMAIN tm.documents THEN tm.documents[tenant_id] ELSE <<>>

RECURSIVE SumChunksCreated(_)
SumChunksCreated(docs) ==
    IF docs = <<>> THEN 0 ELSE Head(docs).chunks_created + SumChunksCreated(Tail(docs))

\* a faulty variant: the counts are stepped by one instead of recomputed
UpdateCountsIncrementing(tm, tenant_id) ==
    IF tenant_id \in DOMAIN tm.tenants
    THEN [tm EXCEPT !.tenants[tenant_id].document_count = @ + 1,
                    !.tenants[tenant_id].total_chunks =
                        SumChunksCreated(tm.documents[tenant_id])]
    ELSE tm

\* the counts of the tenant's catalog entry, set from its documents
UpdateCounts(tm, tenant_id) ==
    IF tenant_id \in DOMAIN tm.tenants
    THEN [tm EXCEPT !.tenants[tenant_id].document_count = Len(tm.documents[tenant_id]),
                    !.tenants[tenant_id].total_chunks =
                        SumChunksCreated(tm.documents[tenant_id])]
    ELSE tm

CreateTenant(tm, name, tenant_id) ==
    [tm |-> SaveData([tm EXCEPT !.tenants = Put(@, tenant_id, TenantInfo(tenant_id, name)),
                                !.documents = Put(@, tenant_id, <<>>)]),
     ret |-> tenant_id]

\* the first position of docs that holds filename, 0 for None
ExistingDocIndex(docs, filename) ==
    IF \E i \in 1..Len(docs) : docs[i].filename = filename
    THEN CHOOSE i \in 1..Len(docs) :
            /\ docs[i].filename = filename
            /\ \A j \in 1..(i - 1) : docs[j].filename # filename
    ELSE 0

\* a faulty variant: the record is appended whatever the tenant holds
TenantManagerAddDocumentAppending(tm, tenant_id, filename, file_type, file_size, chunks_created, file_content, write_fails) ==
    IF write_fails THEN [tm |-> tm, ret |-> FALSE]
    ELSE LET doc_info == DocumentInfo(filename, tenant_id, file_type, file_size,
                                      chunks_created)
             docs == GetTenantDocuments(tm, tenant_id)
         IN [tm |-> SaveData(UpdateCounts(
                        [tm EXCEPT !.blobs = Put(@, doc_info.file_path, file_content),
                                   !.documents = Put(@, tenant_id, Append(docs, doc_info))],
                        tenant_id)),
             ret |-> TRUE]

\* write_fails: mkdir or open raises
TenantManagerAddDocument(tm, tenant_id, filename, file_type, file_size, chunks_created, file_content, write_fails) ==
    IF write_fails THEN [tm |-> tm, ret |-> FALSE]
    ELSE LET doc_info == DocumentInfo(filename, tenant_id, file_type, file_size,
                                      chunks_created)
             docs == GetTenantDocuments(tm, tenant_id)
             i == ExistingDocIndex(docs, filename)
             new_docs == IF i # 0 THEN [docs EXCEPT ![i] = doc_info]
                         ELSE Append(docs, doc_info)
         IN [tm |-> SaveData(UpdateCounts(
                        [tm EXCEPT !.blobs = Put(@, doc_info.file_path, file_content),
                                   !.documents = Put(@, tenant_id, new_docs)],
                        tenant_id)),
             ret |-> TRUE]

\* del docs[i], i 1-based
DelAt(docs, i) == SubSeq(docs, 1, i - 1) \o SubSeq(docs, i + 1, Len(docs))

\* a faulty variant: the record stays when its file is missing or cannot
\* be removed
TenantManagerDeleteDocumentNeedingFile(tm, tenant_id, filename, remove_fails) ==
    LET docs == GetTenantDocuments(tm, tenant_id)
        i == ExistingDocIndex(docs, filename)
    IN IF i = 0 THEN [tm |-> tm, ret |-> FALSE]
       ELSE IF docs[i].file_path \notin DOMAIN tm.blobs \/ remove_fails
       THEN [tm |-> tm, ret |-> FALSE]
       ELSE [tm |-> SaveData(UpdateCounts(
                        [tm EXCEPT !.blobs = Drop(@, docs[i].file_path),
                                   !.documents = Put(@, tenant_id, DelAt(docs, i))],
                        tenant_id)),
             ret |-> TRUE]

\* remove_fails: os.remove raises
TenantManagerDeleteDocument(tm, tenant_id, filename, remove_fails) ==
    LET docs == GetTenantDocuments(tm, tenant_id)
        i == ExistingDocIndex(docs, filename)
    IN IF i = 0 THEN [tm |-> tm, ret |-> FALSE]
       ELSE [tm |-> SaveData(UpdateCounts(
                        [tm EXCEPT !.blobs = IF docs[i].file_path \in DOMAIN @ /\ ~remove_fails
                                             THEN Drop(@, docs[i].file_path) ELSE @,
                                   !.documents = Put(@, tenant_id, DelAt(docs, i))],
                        tenant_id)),
             ret |-> TRUE]

\* a faulty variant: the scan of a tenant stops at its first orphan
ValidDocsUntilOrphan(tm, docs) ==
    IF \E i \in 1..Len(docs) : docs[i].file_path \notin DOMAIN tm.blobs
    THEN SubSeq(docs, 1, (CHOOSE i \in 1..Len(docs) :
                             /\ docs[i].file_path \notin DOMAIN tm.blobs
                             /\ \A j \in 1..(i - 1) : docs[j].file_path \in DOMAIN tm.blobs) - 1)
    ELSE docs

\* lines 217-223: the records whose file exists, in their order
ValidDocs(tm, docs) == SelectSeq(docs, LAMBDA doc : doc.file_path \in DOMAIN tm.blobs)

\* total_removed over the tenants of S
RECURSIVE TotalRemoved(_, _)
TotalRemoved(tm, S) ==
    IF S = {} THEN 0
    ELSE LET tenant_id == CHOOSE t \in S : TRUE
         IN Len(tm.documents[tenant_id]) - Len(ValidDocs(tm, tm.documents[tenant_id]))
            + TotalRemoved(tm, S \ {tenant_id})

\* a tenant without documents is passed over (lines 214-215)
CleanupOrphanedReferences(tm) ==
    LET scanned == {t \in DOMAIN tm.documents : tm.documents[t] # <<>>}
        total_removed == TotalRemoved(tm, scanned)
        cleaned == [tm EXCEPT
            !.documents = [t \in DOMAIN tm.documents |->
                IF t \in scanned THEN ValidDocs(tm, tm.documents[t]) ELSE tm.documents[t]],
            !.tenants = [t \in DOMAIN tm.tenants |->
                IF t \in scanned
                THEN [tm.tenants[t] EXCEPT
                        !.document_count = Len(ValidDocs(tm, tm.documents[t])),
                        !.total_chunks = SumChunksCreated(ValidDocs(tm, tm.documents[t]))]
                ELSE tm.tenants[t]]]
    IN [tm |-> IF total_removed > 0 THEN SaveData(cleaned) ELSE cleaned,
        ret |-> total_removed]

(***************************************************************************)
(* The retriever: a vector store and a tenant store of its own.            *)
(***************************************************************************)
\* a faulty variant: the tenant store is written whatever the vector store
\* returned
RetrieverAddDocumentStoringFirst(st, tm, model, file_content, filename, file_type, tenant_id, failing, embed_fails, write_fails) ==
    LET chunks == ProcessFile(file_content, filename, file_type, tenant_id)
        vector == AddDocuments(st, model, chunks, tenant_id, TRUE, FALSE, failing, embed_fails)
        storage == TenantManagerAddDocument(tm, tenant_id, filename, file_type,
                       Len(file_content), Len(chunks), file_content, write_fails)
    IN IF chunks = <<>>
       THEN [st |-> st, tm |-> storage.tm, success |-> FALSE, chunks_created |-> 0]
       ELSE IF vector.ret
       THEN [st |-> vector.st, tm |-> storage.tm, success |-> TRUE,
             chunks_created |-> Len(chunks)]
       ELSE [st |-> vector.st, tm |-> storage.tm, success |-> FALSE,
             chunks_created |-> Len(chunks)]

RetrieverAddDocument(st, tm, model, file_content, filename, file_type, tenant_id, failing, embed_fails, write_fails) ==
    LET chunks == ProcessFile(file_content, filename, file_type, tenant_id)
        vector == AddDocuments(st, model, chunks, tenant_id, TRUE, FALSE, failing, embed_fails)
        storage == TenantManagerAddDocument(tm, tenant_id, filename, file_type,
                       Len(file_content), Len(chunks), file_content, write_fails)
    IN IF chunks = <<>>
       THEN [st |-> st, tm |-> tm, success |-> FALSE, chunks_created |-> 0]
       ELSE IF vector.ret
       THEN [st |-> vector.st, tm |-> storage.tm, success |-> TRUE,
             chunks_created |-> Len(chunks)]
       ELSE [st |-> vector.st, tm |-> tm, success |-> FALSE,
             chunks_created |-> Len(chunks)]

\* _remove_documents_by_filename as delete_document calls it.
\* remove_raises: an exception reaches the handler of line 273, before the
\* index and the metadata are assigned
VectorDelete(st, filename, tenant_id, failing, remove_raises) ==
    IF remove_raises THEN [st |-> st, ret |-> FALSE]
    ELSE RemoveDocumentsByFilename(st, filename, tenant_id, failing)

\* a faulty variant: the tenant store is left alone when the vector store
\* reported a failure
RetrieverDeleteDocumentShortCircuit(st, tm, tenant_id, filename, failing, remove_raises, remove_fails) ==
    LET vector == VectorDelete(st, filename, tenant_id, failing, remove_raises)
        storage == IF vector.ret
                   THEN TenantManagerDeleteDocument(tm, tenant_id, filename, remove_fails)
                   ELSE [tm |-> tm, ret |-> FALSE]
    IN [st |-> vector.st, tm |-> storage.tm, vector_success |-> vector.ret,
        storage_success |-> storage.ret, ret |-> vector.ret /\ storage.ret]

RetrieverDeleteDocument(st, tm, tenant_id, filename, failing, remove_raises, remove_fails) ==
    LET vector_success == VectorDelete(st, filename, tenant_id, failing, remove_raises)
        storage_success == TenantManagerDeleteDocument(tm, tenant_id, filename, remove_fails)
    IN [st |-> vector_success.st, tm |-> storage_success.tm,
        vector_success |-> vector_success.ret, storage_success |-> storage_success.ret,
        ret |-> vector_success.ret /\ storage_success.ret]

(***************************************************************************)
(* The files of the vector store.  The disk is the value dk of the same    *)
(* shape as the store: <tenant>_index.faiss and <tenant>_metadata.json.    *)
(***************************************************************************)
\* write: "ok", or the file whose writing raises
WriteOutcomes == {"ok", "index", "metadata"}

\* _save_tenant_index: the index file, then the metadata file; an
\* exception, a KeyError too, ends the writing and is swallowed
SaveTenantIndex(dk, st, tenant_id, write) ==
    IF tenant_id \notin DOMAIN st.idx \/ write = "index" THEN dk
    ELSE IF tenant_id \notin DOMAIN st.meta \/ write = "metadata"
    THEN [idx |-> Put(dk.idx, tenant_id, st.idx[tenant_id]), meta |-> dk.meta]
    ELSE [idx |-> Put(dk.idx, tenant_id, st.idx[tenant_id]),
          meta |-> Put(dk.meta, tenant_id, st.meta[tenant_id])]

\* the disk after _remove_documents_by_filename: line 270 is reached when
\* entries were removed and nothing raised
DiskAfterRemove(dk, st, filename, tenant_id, failing, write) ==
    LET r == RemoveDocumentsByFilename(st, filename, tenant_id, failing)
    IN IF /\ r.ret
          /\ tenant_id \in DOMAIN st.meta
          /\ Len(KeepPositions(st.meta[tenant_id], filename)) < Len(st.meta[tenant_id])
       THEN SaveTenantIndex(dk, r.st, tenant_id, write)
       ELSE dk

\* the disk after add_documents: the save of the removal it calls, and the
\* save of line 70 when the chunks were appended
DiskAfterAdd(dk, st, model, chunks, tenant_id, replace_existing, clear_all, failing, embed_fails, write) ==
    LET r == AddDocuments(st, model, chunks, tenant_id, replace_existing, clear_all,
                          failing, embed_fails)
        removes == /\ model /\ chunks # <<>>
                   /\ ~clear_all /\ replace_existing
                   /\ tenant_id \in DOMAIN st.idx
        removed == IF removes
                   THEN DiskAfterRemove(dk, st, chunks[1].source, tenant_id, failing, write)
                   ELSE dk
    IN IF r.ret THEN SaveTenantIndex(removed, r.st, tenant_id, write) ELSE removed

(***************************************************************************)
(* The calls on a VectorStore, as actions.  The files are followed where   *)
(* a formula reads them, in SpecPersistence and SpecRetrieval; here disk   *)
(* stays as it is.                                                         *)
(***************************************************************************)
Filters ==
    {NoFilter,
     [x \in {"source"} |-> [list |-> TRUE, value |-> {"a.txt"}]]}

\* history helper: how many entries of md come from filename
CountSource(md, filename) == Cardinality({i \in 1..Len(md) : md[i].source = filename})

EntriesIn(st, tenant_id) == IF tenant_id \in DOMAIN st.meta THEN st.meta[tenant_id] ELSE <<>>
IndexIn(st, tenant_id) == IF tenant_id \in DOMAIN st.idx THEN st.idx[tenant_id] ELSE <<>>

RECURSIVE TotalOver(_, _)
TotalOver(md, S) ==
    IF S = {} THEN 0
    ELSE LET x == CHOOSE y \in S : TRUE IN Len(md[x]) + TotalOver(md, S \ {x})

TotalEntries(st) == TotalOver(st.meta, DOMAIN st.meta)

\* the sets of positions at which reconstruct may raise in a removal
Failings(st, filename, tenant_id) ==
    LET keep == KeepPositions(EntriesIn(st, tenant_id), filename)
    IN IF Len(keep) = Len(EntriesIn(st, tenant_id)) THEN {{}}
       ELSE SUBSET {keep[j] : j \in 1..Len(keep)}

VSAddDocuments ==
    \E u \in Uploads, d \in Docs, fl \in Flags, embed_fails \in BOOLEAN :
    \E failing \in Failings(Store, u[2], u[1]) :
    \E t \in {u[1]}, f \in {u[2]}, replace_existing \in {fl[1]}, clear_all \in {fl[2]} :
    \E r \in {AddDocuments(Store, embedding_model, ProcessFile(d, f, "text/plain", t), t,
                            replace_existing, clear_all, failing, embed_fails)} :
           /\ TotalEntries(r.st) <= MaxEntries
           /\ tenant_indices' = r.st.idx
           /\ tenant_metadata' = r.st.meta
           /\ deleted' = IF r.ret THEN deleted \ {<<t, f>>} ELSE deleted
           /\ last' = IF r.ret
                       THEN [op |-> "add_documents", tenant |-> t, file |-> f, doc |-> d,
                             replace_existing |-> replace_existing, clear_all |-> clear_all,
                             before |-> CountSource(EntriesIn(Store, t), f),
                             chunks |-> GetTenantStats(Store, t).chunks,
                             ret |-> TRUE]
                       ELSE [op |-> "add_documents", tenant |-> t, file |-> f, ret |-> FALSE]
           /\ UNCHANGED <<peerVars, embedding_model, disk, tmVars, routerVars>>

VSRemoveDocumentsByFilename ==
    \E u \in Uploads :
    \E t \in {u[1]}, f \in {u[2]}, failing \in Failings(Store, u[2], u[1]) :
    \E r \in {RemoveDocumentsByFilename(Store, f, t, failing)} :
           /\ tenant_indices' = r.st.idx
           /\ tenant_metadata' = r.st.meta
           /\ deleted' = IF r.ret THEN deleted \cup {<<t, f>>} ELSE deleted
           /\ last' = [op |-> "remove", tenant |-> t, file |-> f,
                       before |-> CountSource(EntriesIn(Store, t), f),
                       chunks |-> GetTenantStats(Store, t).chunks,
                       documents |-> GetTenantStats(Store, t).documents,
                       ret |-> r.ret]
           /\ UNCHANGED <<peerVars, embedding_model, disk, tmVars, routerVars>>

VSClearAllDocuments ==
    \E t \in Tenants :
    \E r \in {ClearAllDocuments(Store, t)} :
           /\ tenant_indices' = r.st.idx
           /\ tenant_metadata' = r.st.meta
           /\ last' = [op |-> "clear_all_documents", tenant |-> t, ret |-> r.ret]
           /\ UNCHANGED <<peerVars, embedding_model, disk, deleted, tmVars, routerVars>>

VSDeleteTenantData ==
    \E t \in Tenants :
    \E r \in {DeleteTenantData(Store, t)} :
           /\ tenant_indices' = r.st.idx
           /\ tenant_metadata' = r.st.meta
           /\ last' = [op |-> "delete_tenant_data", tenant |-> t, ret |-> r.ret]
           /\ UNCHANGED <<peerVars, embedding_model, disk, deleted, tmVars, routerVars>>

VSSearch ==
    \E t \in Tenants, q \in Queries, k \in Ks, mf \in Filters :
    \E ranking \in Rankings(IndexIn(Store, t), q) :
        /\ last' = [op |-> "search", tenant |-> t, k |-> k, raised |-> FALSE,
                    results |-> Search(Store, embedding_model, q, t, k, mf, ranking)]
        /\ UNCHANGED <<peerVars, vsVars, deleted, tmVars, routerVars>>

VSHybridSearch ==
    \E t \in Tenants, q \in Queries, k \in Ks, mf \in Filters :
    \E ranking \in Rankings(IndexIn(Store, t), q) :
    \E r \in {HybridSearch(Store, embedding_model, q, t, k, mf, 3, ranking)} :
           /\ last' = [op |-> "hybrid_search", tenant |-> t, k |-> k,
                       raised |-> r.raised, results |-> r.results]
           /\ UNCHANGED <<peerVars, vsVars, deleted, tmVars, routerVars>>

VSGetTenantStats ==
    \E t \in Tenants :
        /\ last' = [op |-> "get_tenant_stats", tenant |-> t,
                    ret |-> GetTenantStats(Store, t)]
        /\ UNCHANGED <<peerVars, vsVars, deleted, tmVars, routerVars>>

\* VectorStore.__init__ and TenantManager.__init__ on empty storage
\* directories, and a controller no call of which has begun
Init ==
    /\ embedding_model \in BOOLEAN
    /\ tenant_indices = [x \in {} |-> <<>>]
    /\ tenant_metadata = [x \in {} |-> <<>>]
    /\ tenants = [x \in {} |-> <<>>]
    /\ documents = [x \in {} |-> <<>>]
    /\ blobs = [x \in {} |-> <<>>]
    /\ saved_data = [tenants |-> [x \in {} |-> <<>>], documents |-> [x \in {} |-> <<>>]]
    /\ state = [x \in {} |-> <<>>]
    /\ pc = "idle"
    /\ returned = [x \in {} |-> <<>>]
    /\ trace = <<>>
    /\ disk = [idx |-> [x \in {} |-> <<>>], meta |-> [x \in {} |-> <<>>]]
    /\ agent_store = [idx |-> [x \in {} |-> <<>>], meta |-> [x \in {} |-> <<>>],
                      documents |-> [x \in {} |-> <<>>]]
    /\ app_tm = [tenants |-> [x \in {} |-> <<>>], documents |-> [x \in {} |-> <<>>]]
    /\ deleted = {}
    /\ last = [op |-> "init"]

Next ==
    \/ VSAddDocuments
    \/ VSRemoveDocumentsByFilename
    \/ VSClearAllDocuments
    \/ VSDeleteTenantData
    \/ VSSearch
    \/ VSHybridSearch
    \/ VSGetTenantStats

Spec == Init /\ [][Next]_vars

(***************************************************************************)
(* The claims about the vector store.                                      *)
(***************************************************************************)
\* C1: for every tenant the store holds, the vector index has as many
\* entries as the metadata list.
C1_IndexMatchesMetadata ==
    \A t \in DOMAIN tenant_indices :
        /\ t \in DOMAIN tenant_metadata
        /\ Len(tenant_indices[t]) = Len(tenant_metadata[t])

\* C2: when _remove_documents_by_filename(f, t) returns True, the metadata
\* list is the old one without the entries of f, the others in their order,
\* and the embedding at each index position is the one that stood, before
\* the call, at the position of the metadata entry now at that position.
C2_RemovalKeepsAlignment ==
    [][(last'.op = "remove" /\ last'.ret /\ last'.tenant \in DOMAIN tenant_metadata
            /\ C1_IndexMatchesMetadata) =>
        LET t == last'.tenant
            md == tenant_metadata[t]
            kept == SelectSeq([i \in 1..Len(md) |-> i],
                              LAMBDA i : md[i].source # last'.file)
        IN /\ tenant_metadata'[t] = [j \in 1..Len(kept) |-> md[kept[j]]]
           /\ tenant_indices'[t] = [j \in 1..Len(kept) |-> tenant_indices[t][kept[j]]]
      ]_vars

\* C3: after a deletion of f for t no search or hybrid_search for t returns
\* a result whose source is f, until f is added again; and the deletion took
\* f's entries off the chunks stat and one off the documents stat.
C3_DeletedFileIsGone ==
    /\ last.op \in {"search", "hybrid_search"} =>
           \A i \in 1..Len(last.results) :
               <<last.tenant, last.results[i].source>> \notin deleted
    /\ (last.op = "remove" /\ last.ret /\ last.before > 0) =>
           /\ GetTenantStats(Store, last.tenant).chunks = last.chunks - last.before
           /\ GetTenantStats(Store, last.tenant).documents = last.documents - 1

\* a search that finds something for a tenant one of whose files was deleted
C3_Witness ==
    /\ last.op \in {"search", "hybrid_search"}
    /\ last.results # <<>>
    /\ \E f \in Files : <<last.tenant, f>> \in deleted

\* C4: after add_documents with replace_existing the entries of the file are
\* exactly the chunks just added, once each and in order, at the end of the
\* index too, and the chunks stat counts them once beside the other files'.
C4_ReingestionReplaces ==
    (last.op = "add_documents" /\ last.ret /\ last.replace_existing /\ ~last.clear_all) =>
        LET t == last.tenant
            chunks == ProcessFile(last.doc, last.file, "text/plain", t)
            md == tenant_metadata[t]
            index == tenant_indices[t]
        IN /\ SelectSeq(md, LAMBDA e : e.source = last.file) = EntriesOf(chunks)
           /\ SubSeq(md, Len(md) - Len(chunks) + 1, Len(md)) = EntriesOf(chunks)
           /\ SubSeq(index, Len(index) - Len(chunks) + 1, Len(index)) = EmbeddingsOf(chunks)
           /\ GetTenantStats(Store, t).chunks = (last.chunks - last.before) + Len(chunks)

\* a file the tenant held is ingested again, beside another file
C4_Witness ==
    /\ last.op = "add_documents" /\ last.ret
    /\ last.replace_existing /\ ~last.clear_all
    /\ last.before > 0
    /\ last.chunks > last.before

\* C5: a call for one tenant leaves the index and the metadata of every
\* other tenant as they were, and a search for a tenant returns only entries
\* added under that tenant.
C5_TenantIsolation ==
    /\ [](last.op \in {"search", "hybrid_search"} =>
            \A i \in 1..Len(last.results) :
                last.results[i].metadata.tenant_id = last.tenant)
    /\ [][\A b \in Tenants \ {last'.tenant} :
            /\ (b \in DOMAIN tenant_indices') = (b \in DOMAIN tenant_indices)
            /\ (b \in DOMAIN tenant_metadata') = (b \in DOMAIN tenant_metadata)
            /\ IndexIn(Store, b)' = IndexIn(Store, b)
            /\ EntriesIn(Store, b)' = EntriesIn(Store, b)
         ]_vars

\* a search finds something for a tenant while another tenant holds entries
C5_Witness ==
    /\ last.op \in {"search", "hybrid_search"}
    /\ last.results # <<>>
    /\ \E b \in Tenants \ {last.tenant} : EntriesIn(Store, b) # <<>>

(***************************************************************************)
(* The calls on a RAGRetriever, as actions.                                *)
(***************************************************************************)
\* the default keyword_weight of hybrid_search, 0.3, in tenths
KeywordWeight == 3

\* a faulty variant: a tenant's metadata is read without its index
RetrieveContextFromMetadata(st, model, query, tenant_id, k, use_hybrid, metadata_filter, ranking) ==
    LET md == IF tenant_id \in DOMAIN st.meta THEN st.meta[tenant_id] ELSE <<>>
        results == SubSeq(md, 1, Min(k, Len(md)))
    IN [results |-> results,
        ret |-> [context |-> [i \in 1..Len(results) |->
                                <<i, results[i].source, results[i].content>>],
                 sources |-> [i \in 1..Len(results) |->
                                [filename |-> results[i].source]],
                 chunks_found |-> Len(results), tenant_id |-> tenant_id]]

\* results: what search or hybrid_search returned; ret: the dictionary
RetrieveContext(st, model, query, tenant_id, k, use_hybrid, metadata_filter, ranking) ==
    LET h == HybridSearch(st, model, query, tenant_id, k, metadata_filter,
                          KeywordWeight, ranking)
        results == IF use_hybrid THEN h.results
                   ELSE Search(st, model, query, tenant_id, k, metadata_filter, ranking)
        source_info(r) ==
            LET info == [filename |-> r.source, page |-> r.metadata.page_number,
                         chunk_index |-> r.metadata.chunk_index, score |-> r.score]
            IN IF use_hybrid
               THEN [x \in (DOMAIN info) \cup {"hybrid_score"} |->
                        IF x = "hybrid_score" THEN r.hybrid_score ELSE info[x]]
               ELSE info
    IN IF use_hybrid /\ h.raised
       THEN [results |-> <<>>,
             ret |-> [context |-> <<>>, sources |-> <<>>, chunks_found |-> 0,
                      error |-> TRUE, tenant_id |-> tenant_id]]
       ELSE IF results = <<>>
       THEN [results |-> results,
             ret |-> [context |-> <<>>, sources |-> <<>>, chunks_found |-> 0,
                      tenant_id |-> tenant_id]]
       ELSE [results |-> results,
             ret |-> [context |-> [i \in 1..Len(results) |->
                                     <<i, results[i].source, results[i].content>>],
                      sources |-> [i \in 1..Len(results) |-> source_info(results[i])],
                      chunks_found |-> Len(results), tenant_id |-> tenant_id,
                      query |-> query]]

\* document_names: a sequence of filenames, <<>> for None or []
RetrieveContextFromDocuments(st, model, query, document_names, tenant_id, k, use_hybrid, ranking) ==
    LET metadata_filter ==
            IF document_names # <<>>
            THEN [x \in {"source"} |->
                    [list |-> TRUE,
                     value |-> {document_names[i] : i \in 1..Len(document_names)}]]
            ELSE NoFilter
    IN RetrieveContext(st, model, query, tenant_id, k, use_hybrid, metadata_filter, ranking)

FileTypes == {"text/plain"}
Names == {"Boss"}
\* the files uploaded through the retriever: two files of one tenant
RetrieverUploads == {<<"t1", "a.txt">>, <<"t1", "b.txt">>}

RAddDocument ==
    \E u \in RetrieverUploads, d \in Docs, file_type \in FileTypes :
    \E embed_fails \in BOOLEAN, write_fails \in BOOLEAN :
    \E failing \in Failings(Store, u[2], u[1]) :
    \E r \in {RetrieverAddDocument(Store, TM, embedding_model, d, u[2], file_type, u[1],
                                    failing, embed_fails, write_fails)} :
           /\ TotalEntries(r.st) <= MaxEntries
           /\ tenant_indices' = r.st.idx
           /\ tenant_metadata' = r.st.meta
           /\ tenants' = r.tm.tenants
           /\ documents' = r.tm.documents
           /\ blobs' = r.tm.blobs
           /\ saved_data' = r.tm.saved
           /\ last' = [op |-> "add_document", tenant |-> u[1], file |-> u[2], doc |-> d,
                       file_type |-> file_type, success |-> r.success,
                       chunks_created |-> r.chunks_created]
           /\ UNCHANGED <<peerVars, embedding_model, disk, deleted, routerVars>>

RDeleteDocument ==
    \E u \in RetrieverUploads, remove_raises \in BOOLEAN, remove_fails \in BOOLEAN :
    \E failing \in Failings(Store, u[2], u[1]) :
    \E r \in {RetrieverDeleteDocument(Store, TM, u[1], u[2], failing, remove_raises,
                                       remove_fails)} :
           /\ tenant_indices' = r.st.idx
           /\ tenant_metadata' = r.st.meta
           /\ tenants' = r.tm.tenants
           /\ documents' = r.tm.documents
           /\ blobs' = r.tm.blobs
           /\ saved_data' = r.tm.saved
           /\ last' = [op |-> "delete_document", tenant |-> u[1], file |-> u[2],
                       vector_success |-> r.vector_success,
                       storage_success |-> r.storage_success, ret |-> r.ret]
           /\ UNCHANGED <<peerVars, embedding_model, disk, deleted, routerVars>>

RCreateTenant ==
    \E t \in Tenants, name \in Names :
    \E r \in {CreateTenant(TM, name, t)} :
           /\ tenants' = r.tm.tenants
           /\ documents' = r.tm.documents
           /\ blobs' = r.tm.blobs
           /\ saved_data' = r.tm.saved
           /\ last' = [op |-> "create_tenant", tenant |-> t, ret |-> r.ret]
           /\ UNCHANGED <<peerVars, vsVars, deleted, routerVars>>

NextRetriever ==
    \/ RAddDocument
    \/ RDeleteDocument
    \/ RCreateTenant

SpecRetriever == Init /\ [][NextRetriever]_vars

(***************************************************************************)
(* The claims about the retriever.                                         *)
(***************************************************************************)
\* C6: add_document writes the tenant store only after the vector store took
\* the chunks: a call that returns success = false leaves the catalog and the
\* stored bytes as they were, a call for a file that yields no chunks returns
\* success = false and leaves the vector store as it was too, and a call that
\* changes the tenant store returned success = true with the chunks in the
\* tenant's metadata.
C6_StoreAfterVectorWrite ==
    [][last'.op = "add_document" =>
        LET chunks == ProcessFile(last'.doc, last'.file, last'.file_type, last'.tenant)
        IN /\ ~last'.success => tmVars' = tmVars
           /\ chunks = <<>> => (~last'.success /\ vsVars' = vsVars)
           /\ tmVars' # tmVars =>
                 /\ last'.success
                 /\ last'.tenant \in DOMAIN tenant_metadata'
                 /\ SelectSeq(tenant_metadata'[last'.tenant],
                              LAMBDA e : e.source = last'.file) = EntriesOf(chunks)
      ]_vars

\* the vector store refused the chunks of a file the tenant store holds
C6_Witness ==
    /\ last.op = "add_document"
    /\ ~last.success
    /\ last.chunks_created > 0
    /\ ExistingDocIndex(GetTenantDocuments(TM, last.tenant), last.file) # 0

\* C7: delete_document tries the deletion in the tenant store whatever the
\* vector store reported (a catalogued document is gone from the catalog
\* after the call), it tries the deletion in the vector store (which, when
\* it reports success, holds no entry of the file), and it returns true
\* exactly when both reported success.
C7_BothDeletionsAttempted ==
    [][last'.op = "delete_document" =>
        LET t == last'.tenant
            f == last'.file
            held == \E i \in 1..Len(GetTenantDocuments(TM, t)) :
                        GetTenantDocuments(TM, t)[i].filename = f
        IN /\ last'.ret = (last'.vector_success /\ last'.storage_success)
           /\ last'.storage_success = held
           /\ held => /\ Len(documents'[t]) = Len(documents[t]) - 1
                      /\ \A i \in 1..Len(documents'[t]) : documents'[t][i].filename # f
           /\ (last'.vector_success /\ t \in DOMAIN tenant_metadata') =>
                 \A i \in 1..Len(tenant_metadata'[t]) : tenant_metadata'[t][i].source # f
      ]_vars

\* the vector store reported a failure and the tenant store, which held the
\* document, deleted it
C7_Witness ==
    /\ last.op = "delete_document"
    /\ ~last.vector_success
    /\ last.storage_success
    /\ ~last.ret

(***************************************************************************)
(* The agents and the controller.                                          *)
(*                                                                         *)
(* A message is the set of the words of Vocabulary it is made of, joined   *)
(* by spaces; no keyword or pattern of an agent lies across two words of   *)
(* the vocabulary, so a keyword is in the message when it is in one of its *)
(* words.  A confidence is kept as an integer: 100 times the float to the  *)
(* nearest tenth, and one more or one less when the float lies just above  *)
(* or just below that tenth (0.6000000000000001 is 61, 0.8999999999999999  *)
(* is 89, 0.9 is 90), so that the integers compare as the floats do.       *)
(***************************************************************************)
MaxWords == 2          \* the words of the vocabulary a message is made of, at most

Vocabulary ==
    {"pdf file", "explain", "the document", "information", "report", "data", "api",
     "token", "submit", "json", "average", "hello", "also", "python", "react"}

Messages == {m \in SUBSET Vocabulary : Cardinality(m) <= MaxWords}

\* the keywords of the agents that are substrings of each word
Occurs ==
    [w \in Vocabulary |->
        CASE w = "pdf file" -> {"pdf", "file"}
          [] w = "explain" -> {"explain"}
          [] w = "the document" -> {"document", "doc"}
          [] w = "information" -> {"information", "form"}
          [] w = "report" -> {"report"}
          [] w = "data" -> {"data"}
          [] w = "api" -> {"api"}
          [] w = "token" -> {"token"}
          [] w = "submit" -> {"submit", "it"}
          [] w = "also" -> {"also"}
          [] OTHER -> {}]

\* the patterns of the agents
DocumentReference == "(this|the) (document|file|pdf|paper)"
Url == "https?://"
DataFormat == "(json|xml|curl|postman)"
WebTechnology == "(html|css|javascript|react|vue|angular)"
AnalyticsTool == "(sql|python|r|excel|tableau|powerbi)"
Statistic == "(average|mean|median|sum|count|percentage)"

\* the patterns re.search finds in each word
Matches ==
    [w \in Vocabulary |->
        CASE w = "the document" -> {DocumentReference}
          [] w = "json" -> {DataFormat}
          [] w = "average" -> {Statistic}
          [] w = "python" -> {AnalyticsTool}
          [] w = "react" -> {WebTechnology}
          [] OTHER -> {}]

\* keyword in message_lower
Has(message, keyword) == \E w \in message : keyword \in Occurs[w]
\* any(keyword in message_lower for keyword in keywords)
HasAny(message, keywords) == \E keyword \in keywords : Has(message, keyword)
\* re.search(pattern, message_lower)
Found(message, pattern) == \E w \in message : pattern \in Matches[w]

\* n * 0.2 in floating point, n = 0..21
TimesPointTwo ==
    <<20, 40, 61, 80, 100, 121, 141, 160, 180, 200, 220, 241, 260, 281, 300, 320, 341,
      360, 381, 400, 420>>

\* x + y in floating point, for the sums can_handle forms: <<x, y, x + y>>
FloatSums ==
    {<<0, 10, 10>>, <<0, 20, 20>>, <<0, 30, 30>>, <<10, 20, 31>>, <<10, 30, 40>>,
     <<20, 10, 31>>, <<20, 20, 40>>, <<20, 30, 50>>, <<30, 20, 50>>, <<31, 20, 50>>,
     <<31, 30, 61>>, <<40, 10, 50>>, <<40, 20, 61>>, <<40, 30, 70>>, <<50, 20, 70>>,
     <<50, 30, 80>>, <<61, 10, 71>>, <<61, 20, 80>>, <<61, 30, 91>>, <<70, 20, 89>>,
     <<70, 30, 100>>, <<71, 20, 91>>, <<71, 30, 100>>, <<80, 10, 90>>, <<80, 20, 100>>,
     <<80, 30, 110>>, <<90, 20, 110>>, <<90, 30, 120>>, <<91, 20, 110>>, <<91, 30, 121>>,
     <<100, 20, 120>>, <<100, 30, 130>>, <<110, 20, 130>>, <<110, 30, 141>>,
     <<120, 20, 140>>, <<121, 20, 141>>, <<130, 20, 150>>, <<141, 20, 160>>}

FloatAdd(x, y) == (CHOOSE e \in FloatSums : e[1] = x /\ e[2] = y)[3]

HighConfidence == 90
MediumConfidence == 60
LowConfidence == 10

document_keywords ==
    {"document", "pdf", "file", "text", "analyze", "summary", "summarize", "read",
     "content", "extract", "information", "doc", "paper", "report", "article",
     "research", "study", "findings", "data", "table", "chart"}

followup_phrases ==
    {"more details", "further details", "tell me more", "elaborate", "expand on",
     "what about", "how about", "also", "additionally", "furthermore", "besides",
     "can you explain", "what else", "any other", "continue", "go on"}

\* conversation_history[-4:]
RecentMessages(conversation_history) ==
    SubSeq(conversation_history, Max(1, Len(conversation_history) - 3),
           Len(conversation_history))

\* the loop of lines 346-349: "yes" when an assistant message about documents
\* is met, "raise" when a message without a role is met before (KeyError)
RECURSIVE IsFollowup(_)
IsFollowup(recent_messages) ==
    IF recent_messages = <<>> THEN "no"
    ELSE IF "role" \notin DOMAIN Head(recent_messages) THEN "raise"
    ELSE IF /\ Head(recent_messages).role = "assistant"
            /\ HasAny(Head(recent_messages).content, document_keywords)
    THEN "yes"
    ELSE IsFollowup(Tail(recent_messages))

DocumentQACanHandleRaises(message, context) ==
    /\ context.uploaded_files = <<>>
    /\ IsFollowup(RecentMessages(context.conversation_history)) = "raise"

\* a faulty variant: uploaded files count like a medium keyword
DocumentQACanHandleUploadsMedium(message, context) ==
    IF context.uploaded_files # <<>> THEN MediumConfidence ELSE LowConfidence

DocumentQACanHandle(message, context) ==
    IF context.uploaded_files # <<>> THEN HighConfidence
    ELSE LET is_followup ==
                 IsFollowup(RecentMessages(context.conversation_history)) = "yes"
             keyword_matches == Cardinality({k \in document_keywords : Has(message, k)})
             c0 == IF keyword_matches = 0 THEN 0
                   ELSE Min(TimesPointTwo[keyword_matches], 80)
             c1 == IF HasAny(message, {"what does", "tell me about", "explain"})
                   THEN FloatAdd(c0, 10) ELSE c0
             c2 == IF Found(message, DocumentReference) THEN FloatAdd(c1, 20) ELSE c1
             c3 == IF is_followup /\ HasAny(message, followup_phrases)
                   THEN FloatAdd(c2, 30) ELSE c2
             confidence ==
                   IF is_followup /\ HasAny(message, {"it", "that", "them", "those", "these"})
                   THEN FloatAdd(c3, 20) ELSE c3
         IN IF confidence > 20 THEN Min(confidence, 100) ELSE LowConfidence

api_high_confidence_keywords ==
    {"api", "endpoint", "rest", "graphql", "webhook", "http request", "post request",
     "get request", "put request", "delete request", "api call", "integration",
     "third party", "external service"}

api_medium_confidence_keywords ==
    {"service", "request", "response", "authentication", "auth", "token", "key",
     "connect", "fetch data", "send data"}

APIExecutionCanHandle(message, context) ==
    IF HasAny(message, api_high_confidence_keywords) THEN HighConfidence
    ELSE IF HasAny(message, api_medium_confidence_keywords) THEN MediumConfidence
    ELSE IF Found(message, Url) THEN 80
    ELSE IF Found(message, DataFormat) THEN 70
    ELSE LowConfidence

form_high_confidence_keywords ==
    {"form", "create form", "generate form", "form builder", "input field",
     "form validation", "form schema", "contact form", "registration form",
     "survey form", "feedback form"}

form_medium_confidence_keywords ==
    {"field", "input", "validation", "schema", "template", "layout", "checkbox",
     "radio button", "dropdown", "text field", "submit"}

FormGenerationCanHandle(message, context) ==
    IF HasAny(message, form_high_confidence_keywords) THEN HighConfidence
    ELSE IF HasAny(message, form_medium_confidence_keywords) THEN MediumConfidence
    ELSE IF Found(message, WebTechnology) THEN 70
    ELSE LowConfidence

analytics_high_confidence_keywords ==
    {"analytics", "analysis", "analyze", "data analysis", "statistics", "report",
     "dashboard", "chart", "graph", "visualization", "metrics", "kpi", "performance",
     "trend", "pattern"}

analytics_medium_confidence_keywords ==
    {"data", "numbers", "calculate", "measure", "compare", "insight", "summary",
     "overview", "breakdown", "distribution", "correlation"}

AnalyticsCanHandle(message, context) ==
    IF HasAny(message, analytics_high_confidence_keywords) THEN HighConfidence
    ELSE IF HasAny(message, analytics_medium_confidence_keywords) THEN MediumConfidence
    ELSE IF Found(message, AnalyticsTool) THEN 70
    ELSE IF Found(message, Statistic) THEN 80
    ELSE LowConfidence

\* AgentController._initialize_agents: the agents by name, in their order
agents ==
    <<"Document Q&A Agent", "API Execution Agent", "Form Generation Agent",
      "Analytics Agent">>

\* the agents whose process is a coroutine function
AsyncAgents == {"API Execution Agent", "Analytics Agent"}

CanHandle(agent, message, context) ==
    CASE agent = "Document Q&A Agent" -> DocumentQACanHandle(message, context)
      [] agent = "API Execution Agent" -> APIExecutionCanHandle(message, context)
      [] agent = "Form Generation Agent" -> FormGenerationCanHandle(message, context)
      [] agent = "Analytics Agent" -> AnalyticsCanHandle(message, context)

CanHandleRaises(agent, message, context) ==
    agent = "Document Q&A Agent" /\ DocumentQACanHandleRaises(message, context)

\* a faulty variant: a later agent takes the place of an equal earlier one
ReachesHighest(confidence, highest_confidence) == confidence >= highest_confidence

\* line 81: confidence > highest_confidence
ExceedsHighest(confidence, highest_confidence) == confidence > highest_confidence

\* the loop of _route_to_agent over the agents from position i on
RECURSIVE RouteFrom(_, _, _, _, _)
RouteFrom(i, message, context, best_agent, highest_confidence) ==
    IF i > Len(agents)
    THEN [raised |-> FALSE, selected_agent |-> best_agent,
          confidence |-> highest_confidence]
    ELSE IF CanHandleRaises(agents[i], message, context)
    THEN [raised |-> TRUE, selected_agent |-> best_agent,
          confidence |-> highest_confidence]
    ELSE IF ExceedsHighest(CanHandle(agents[i], message, context), highest_confidence)
    THEN RouteFrom(i + 1, message, context, agents[i],
                   CanHandle(agents[i], message, context))
    ELSE RouteFrom(i + 1, message, context, best_agent, highest_confidence)

None == "None"

RouteToAgent(s) == RouteFrom(1, s.message, s.context, None, 0)

FallbackThreshold == 50

\* a faulty variant: a confidence of exactly the threshold falls back too
ShouldUseFallbackAtThreshold(s) ==
    s.confidence <= FallbackThreshold \/ s.selected_agent = None

ShouldUseFallback(s) == s.confidence < FallbackThreshold \/ s.selected_agent = None

\* what calling a coroutine function returns: a coroutine object, no dictionary
Coroutine(agent) == [coroutine |-> agent]

ErrorResponse(agent) ==
    [response |-> "error", agent |-> agent, confidence |-> 0, error |-> TRUE]

\* agent.process(message, context) as the controller calls it, without await.
\* llm_fails: the call of the language model raises, inside the agent's try
AgentProcess(agent, message, context, llm_fails) ==
    IF agent \in AsyncAgents THEN Coroutine(agent)
    ELSE IF llm_fails THEN ErrorResponse(agent)
    ELSE [response |-> "answer", agent |-> agent,
          confidence |-> CanHandle(agent, message, context)]

\* what str(e) can be for an exception that agent.process lets out
Exceptions == {"timeout"}

\* lines 101-106: the dictionary built from an exception of agent.process
ProcessingError(agent, e) ==
    [response |-> <<"Agent processing error: ", e>>, agent |-> agent,
     confidence |-> 0, error |-> e]

\* a faulty variant: the exception of agent.process leaves the node, and
\* process_message answers with the dictionary of its own except clause
ExecuteSelectedAgentUncaught(s, llm_fails, raised) ==
    IF s.selected_agent # None /\ \E i \in 1..Len(agents) : agents[i] = s.selected_agent
    THEN IF raised # None
         THEN [s EXCEPT !.result = [response |-> "error", agent |-> "System",
                                    confidence |-> 0, error |-> TRUE]]
         ELSE [s EXCEPT !.result = AgentProcess(s.selected_agent, s.message, s.context, llm_fails)]
    ELSE [s EXCEPT !.result = [response |-> "no suitable agent", agent |-> "Unknown",
                               confidence |-> 0]]

\* raised: the text of the exception that agent.process lets out, or None
ExecuteSelectedAgent(s, llm_fails, raised) ==
    IF s.selected_agent # None /\ \E i \in 1..Len(agents) : agents[i] = s.selected_agent
    THEN IF raised # None
         THEN [s EXCEPT !.result = ProcessingError(s.selected_agent, raised)]
         ELSE [s EXCEPT !.result = AgentProcess(s.selected_agent, s.message, s.context, llm_fails)]
    ELSE [s EXCEPT !.result = [response |-> "no suitable agent", agent |-> "Unknown",
                               confidence |-> 0]]

FallbackConfidence == 30

\* a faulty variant: the fallback reports the confidence of the routing
FallbackResponseRoutedConfidence(s, llm_fails) ==
    IF llm_fails
    THEN [s EXCEPT !.result = ErrorResponse("Error Handler")]
    ELSE [s EXCEPT !.result = [response |-> "answer", agent |-> "General Assistant",
                               confidence |-> s.confidence]]

FallbackResponse(s, llm_fails) ==
    IF llm_fails
    THEN [s EXCEPT !.result = ErrorResponse("Error Handler")]
    ELSE [s EXCEPT !.result = [response |-> "answer", agent |-> "General Assistant",
                               confidence |-> FallbackConfidence]]

\* the dictionary process_message returns when graph.invoke raises
SystemError == ErrorResponse("System")

NoContext == [uploaded_files |-> <<>>, conversation_history |-> <<>>]

Contexts ==
    {NoContext,
     [uploaded_files |-> <<"a.txt">>, conversation_history |-> <<>>],
     [uploaded_files |-> <<>>,
      conversation_history |-> <<[role |-> "user", content |-> {"hello"}],
                                 [role |-> "assistant", content |-> {"report"}]>>],
     [uploaded_files |-> <<>>,
      conversation_history |-> <<[role |-> "assistant", content |-> {"report"}],
                                 [role |-> "user", content |-> {"hello"}],
                                 [role |-> "assistant", content |-> {"hello"}],
                                 [role |-> "user", content |-> {"hello"}],
                                 [role |-> "assistant", content |-> {"hello"}]>>],
     [uploaded_files |-> <<>>,
      conversation_history |-> <<[content |-> {"hello"}]>>]}

(***************************************************************************)
(* A process_message call, node by node of the graph.                      *)
(***************************************************************************)
\* process_message: the initial state is handed to the graph
ProcessMessage ==
    \E message \in Messages, context \in Contexts :
        /\ pc = "idle"
        /\ state' = [message |-> message, context |-> context, selected_agent |-> None,
                     confidence |-> 0, result |-> [x \in {} |-> <<>>]]
        /\ pc' = "route_to_agent"
        /\ returned' = [x \in {} |-> <<>>]
        /\ trace' = <<>>
        /\ last' = [op |-> "process_message", llm_fails |-> FALSE, raised |-> None]
        /\ UNCHANGED <<peerVars, vsVars, tmVars, deleted>>

\* the node route_to_agent and the conditional edge that leaves it
NodeRouteToAgent ==
    /\ pc = "route_to_agent"
    /\ \E r \in {RouteToAgent(state)} :
        \E s \in {[state EXCEPT !.selected_agent = r.selected_agent,
                                !.confidence = r.confidence]} :
           /\ state' = IF r.raised THEN state ELSE s
           /\ pc' = IF r.raised THEN "raised"
                    ELSE IF ShouldUseFallback(s) THEN "fallback_response"
                    ELSE "execute_selected_agent"
    /\ trace' = Append(trace, "route_to_agent")
    /\ UNCHANGED <<peerVars, vsVars, tmVars, deleted, last, returned>>

\* an exception can leave process only where process is an ordinary function:
\* calling a coroutine function runs none of its body
Raisable(agent) == IF agent \in AsyncAgents THEN {None} ELSE {None} \cup Exceptions

NodeExecuteSelectedAgent ==
    /\ pc = "execute_selected_agent"
    /\ \E llm_fails \in BOOLEAN, raised \in Raisable(state.selected_agent) :
        /\ state' = ExecuteSelectedAgent(state, llm_fails, raised)
        /\ pc' = "END"
        /\ trace' = trace \o <<"execute_selected_agent", state.selected_agent>>
        /\ last' = [op |-> "process", llm_fails |-> llm_fails, raised |-> raised]
        /\ UNCHANGED <<peerVars, vsVars, tmVars, deleted, returned>>

NodeFallbackResponse ==
    \E llm_fails \in BOOLEAN :
        /\ pc = "fallback_response"
        /\ state' = FallbackResponse(state, llm_fails)
        /\ pc' = "END"
        /\ trace' = Append(trace, "fallback_response")
        /\ last' = [op |-> "fallback", llm_fails |-> llm_fails, raised |-> None]
        /\ UNCHANGED <<peerVars, vsVars, tmVars, deleted, returned>>

\* process_message returns the result of the final state, or the dictionary
\* of its except clause
ProcessMessageReturn ==
    /\ pc \in {"END", "raised"}
    /\ returned' = IF pc = "END" THEN state.result ELSE SystemError
    /\ pc' = "idle"
    /\ UNCHANGED <<peerVars, vsVars, tmVars, deleted, last, state, trace>>

NextRouter ==
    \/ ProcessMessage
    \/ NodeRouteToAgent
    \/ NodeExecuteSelectedAgent
    \/ NodeFallbackResponse
    \/ ProcessMessageReturn

SpecRouter == Init /\ [][NextRouter]_vars

(***************************************************************************)
(* The claims about the controller.                                        *)
(***************************************************************************)
\* C8: when the highest confidence of the agents is at least 0.5, exactly
\* 0.5 too, the call runs execute_selected_agent with an agent of that
\* confidence and not the fallback; when it is below 0.5 the call runs the
\* fallback and no agent.
C8_RoutingThreshold ==
    ((pc \in {"END", "idle"}) /\ Len(trace) >= 2) =>
        LET confidences == {CanHandle(agents[i], state.message, state.context) :
                                i \in 1..Len(agents)}
            highest == CHOOSE c \in confidences : \A d \in confidences : d <= c
        IN /\ highest >= FallbackThreshold =>
                 /\ trace = <<"route_to_agent", "execute_selected_agent",
                              state.selected_agent>>
                 /\ state.selected_agent # None
                 /\ CanHandle(state.selected_agent, state.message, state.context) = highest
           /\ highest < FallbackThreshold =>
                 trace = <<"route_to_agent", "fallback_response">>

\* a call whose highest confidence was exactly 0.5 ran the selected agent
C8_Witness ==
    /\ pc = "idle"
    /\ Len(trace) = 3
    /\ trace[2] = "execute_selected_agent"
    /\ state.confidence = FallbackThreshold

\* C9: once route_to_agent has run, the confidence of the state is the
\* maximum of the agents' confidences and the selected agent is the first,
\* in the order of registration, whose confidence is that maximum.
C9_FirstHighestSelected ==
    (pc \in {"execute_selected_agent", "fallback_response", "END"}
        \/ (pc = "idle" /\ Len(trace) >= 2)) =>
        /\ \A i \in 1..Len(agents) :
               CanHandle(agents[i], state.message, state.context) <= state.confidence
        /\ \E i \in 1..Len(agents) :
               /\ agents[i] = state.selected_agent
               /\ CanHandle(agents[i], state.message, state.context) = state.confidence
               /\ \A j \in 1..(i - 1) :
                      CanHandle(agents[j], state.message, state.context) < state.confidence

\* two agents share the highest confidence, at or above the threshold
C9_Witness ==
    /\ pc = "END"
    /\ state.confidence >= FallbackThreshold
    /\ \E i, j \in 1..Len(agents) :
           /\ i < j
           /\ CanHandle(agents[i], state.message, state.context) = state.confidence
           /\ CanHandle(agents[j], state.message, state.context) = state.confidence

\* C10: what a process_message call returned carries a response text, an
\* agent name and a confidence.
C10_AlwaysAResponse ==
    (pc = "idle" /\ trace # <<>>) =>
        {"response", "agent", "confidence"} \subseteq DOMAIN returned

\* C11: when the process of the selected agent raises, the call returns a
\* dictionary attributed to the selected agent, with confidence 0.0, with
\* the text of the exception in its error field and inside its response.
C11_ProcessingErrorIsCaught ==
    (pc = "idle" /\ Len(trace) = 3 /\ last.op = "process" /\ last.raised # None) =>
        /\ {"response", "agent", "confidence", "error"} \subseteq DOMAIN returned
        /\ returned.agent = state.selected_agent
        /\ returned.confidence = 0
        /\ returned.error = last.raised
        /\ returned.response = <<"Agent processing error: ", last.raised>>

\* a call whose selected agent raised has returned
C11_Witness ==
    /\ pc = "idle"
    /\ Len(trace) = 3
    /\ last.op = "process"
    /\ last.raised = "timeout"
    /\ returned.agent = "Form Generation Agent"

\* C12: a call that ran the fallback reaches END and never the except
\* clause of process_message; when the language model answered, the result
\* is of the General Assistant with confidence exactly 0.3, and when it
\* raised, the result carries an error field.
C12_FallbackNeverRaises ==
    (trace = <<"route_to_agent", "fallback_response">>) =>
        /\ pc \in {"END", "idle"}
        /\ last.op = "fallback"
        /\ ~last.llm_fails => /\ state.result.agent = "General Assistant"
                              /\ state.result.confidence = FallbackConfidence
        /\ last.llm_fails => /\ "error" \in DOMAIN state.result
                             /\ state.result.confidence = 0
        /\ pc = "idle" => returned = state.result

\* a message with no keyword of any agent was answered by the fallback
C12_Witness ==
    /\ pc = "idle"
    /\ trace = <<"route_to_agent", "fallback_response">>
    /\ state.message = {"hello"}
    /\ state.context = NoContext
    /\ ~last.llm_fails
    /\ returned.confidence = FallbackConfidence
    /\ \A i \in 1..Len(agents) : CanHandle(agents[i], state.message, state.context) = LowConfidence

(***************************************************************************)
(* The tenant store called directly, and the files of its directory        *)
(* removed from outside it.                                                *)
(***************************************************************************)
\* what add_document is called with for a file: its size, its chunks and its
\* bytes
Versions ==
    {[file_size |-> 1, chunks_created |-> 1, file_content |-> <<0>>],
     [file_size |-> 4, chunks_created |-> 2, file_content |-> <<2, 2, 0, 1>>]}

TMCreateTenant ==
    \E t \in Tenants, name \in Names :
    \E r \in {CreateTenant(TM, name, t)} :
           /\ tenants' = r.tm.tenants
           /\ documents' = r.tm.documents
           /\ blobs' = r.tm.blobs
           /\ saved_data' = r.tm.saved
           /\ last' = [op |-> "tm_create_tenant", tenant |-> t, ret |-> r.ret]
           /\ UNCHANGED <<peerVars, vsVars, deleted, routerVars>>

TMAddDocument ==
    \E u \in Uploads, v \in Versions, file_type \in FileTypes, write_fails \in BOOLEAN :
    \E r \in {TenantManagerAddDocument(TM, u[1], u[2], file_type, v.file_size,
                                        v.chunks_created, v.file_content, write_fails)} :
           /\ tenants' = r.tm.tenants
           /\ documents' = r.tm.documents
           /\ blobs' = r.tm.blobs
           /\ saved_data' = r.tm.saved
           /\ last' = [op |-> "tm_add_document", tenant |-> u[1], file |-> u[2],
                       version |-> v, ret |-> r.ret]
           /\ UNCHANGED <<peerVars, vsVars, deleted, routerVars>>

TMDeleteDocument ==
    \E u \in Uploads, remove_fails \in BOOLEAN :
    \E r \in {TenantManagerDeleteDocument(TM, u[1], u[2], remove_fails)} :
           /\ tenants' = r.tm.tenants
           /\ documents' = r.tm.documents
           /\ blobs' = r.tm.blobs
           /\ saved_data' = r.tm.saved
           /\ last' = [op |-> "tm_delete_document", tenant |-> u[1], file |-> u[2],
                       file_exists |-> <<u[1], u[2]>> \in DOMAIN blobs,
                       remove_fails |-> remove_fails, ret |-> r.ret]
           /\ UNCHANGED <<peerVars, vsVars, deleted, routerVars>>

TMCleanupOrphanedReferences ==
    \E r \in {CleanupOrphanedReferences(TM)} :
           /\ tenants' = r.tm.tenants
           /\ documents' = r.tm.documents
           /\ blobs' = r.tm.blobs
           /\ saved_data' = r.tm.saved
           /\ last' = [op |-> "cleanup_orphaned_references", ret |-> r.ret]
           /\ UNCHANGED <<peerVars, vsVars, deleted, routerVars>>

\* a file of the storage directory is removed by something else than the
\* tenant store
FileRemovedOutside ==
    \E path \in DOMAIN blobs :
           /\ blobs' = Drop(blobs, path)
           /\ last' = [op |-> "file_removed_outside", path |-> path]
           /\ UNCHANGED <<peerVars, vsVars, tenants, documents, saved_data, deleted, routerVars>>

NextTenantStore ==
    \/ TMCreateTenant
    \/ TMAddDocument
    \/ TMDeleteDocument
    \/ TMCleanupOrphanedReferences
    \/ FileRemovedOutside

SpecTenantStore == Init /\ [][NextTenantStore]_vars

(***************************************************************************)
(* The claims about the tenant store.                                      *)
(***************************************************************************)
\* C13: every tenant of the catalog has a document_count that is the number
\* of its DocumentInfo records and a total_chunks that is the sum of their
\* chunks_created.
C13_CountsAreRecomputed ==
    \A t \in DOMAIN tenants :
        LET docs == IF t \in DOMAIN documents THEN documents[t] ELSE <<>>
        IN /\ tenants[t].document_count = Len(docs)
           /\ tenants[t].total_chunks = SumChunksCreated(docs)

\* a tenant of the catalog is left with one record of two chunks by a
\* call that replaced or removed records
C13_Witness ==
    /\ \/ last.op = "tm_delete_document" /\ last.ret
       \/ last.op = "cleanup_orphaned_references" /\ last.ret > 0
    /\ \E t \in DOMAIN tenants :
           /\ tenants[t].document_count = 1
           /\ tenants[t].total_chunks = 2

\* C14: no tenant holds two records of one filename, and an add_document
\* that succeeds for a filename the tenant holds leaves the number of records
\* as it was, with the record of that filename, at its position, carrying the
\* new size and chunk count and the file holding the new bytes.
C14_FilenameUniqueUpsert ==
    /\ [](\A t \in DOMAIN documents : \A i, j \in 1..Len(documents[t]) :
              documents[t][i].filename = documents[t][j].filename => i = j)
    /\ [][(last'.op = "tm_add_document" /\ last'.ret) =>
            LET t == last'.tenant
                f == last'.file
                before == IF t \in DOMAIN documents THEN documents[t] ELSE <<>>
            IN \A i \in 1..Len(before) : before[i].filename = f =>
                  /\ Len(documents'[t]) = Len(before)
                  /\ documents'[t][i].filename = f
                  /\ documents'[t][i].file_size = last'.version.file_size
                  /\ documents'[t][i].chunks_created = last'.version.chunks_created
                  /\ blobs'[documents'[t][i].file_path] = last'.version.file_content
                  /\ \A j \in 1..Len(before) : j # i => documents'[t][j] = before[j]]_vars

\* the first of two records of a tenant was replaced by another version
C14_Witness ==
    /\ last.op = "tm_add_document"
    /\ last.ret
    /\ last.tenant \in DOMAIN documents
    /\ Len(documents[last.tenant]) = 2
    /\ documents[last.tenant][1].filename = last.file
    /\ documents[last.tenant][1].file_size = 4
    /\ documents[last.tenant][2].file_size = 1
    /\ saved_data.documents = documents

\* C15: delete_document of a filename the tenant holds returns true and
\* takes that record, and no other, out of the tenant's records, whether its
\* file exists or not and whether os.remove fails or not; of a filename the
\* tenant does not hold it returns false and changes neither the tenants nor
\* the documents.
C15_DeleteRemovesRecord ==
    [][last'.op = "tm_delete_document" =>
        LET t == last'.tenant
            f == last'.file
            before == IF t \in DOMAIN documents THEN documents[t] ELSE <<>>
            held == \E i \in 1..Len(before) : before[i].filename = f
        IN /\ held => /\ last'.ret
                      /\ documents'[t] = SelectSeq(before, LAMBDA d : d.filename # f)
                      /\ Len(documents'[t]) = Len(before) - 1
                      /\ \A o \in DOMAIN documents : o # t => documents'[o] = documents[o]
           /\ ~held => /\ ~last'.ret
                       /\ tenants' = tenants
                       /\ documents' = documents]_vars

\* a record whose file was gone has been deleted, the call returning true
C15_Witness ==
    /\ last.op = "tm_delete_document"
    /\ last.ret
    /\ ~last.file_exists
    /\ last.tenant \in DOMAIN documents
    /\ Len(documents[last.tenant]) = 1

\* the records of tenant t whose file is missing, as positions
Orphans(t) == {i \in 1..Len(documents[t]) : documents[t][i].file_path \notin DOMAIN blobs}

\* C16: cleanup_orphaned_references leaves of every tenant the records whose
\* file exists, in their order, returns the number of the records it dropped
\* over all tenants, and leaves every tenant of the catalog with a
\* document_count of its number of records before minus those dropped of it.
C16_CleanupRemovesOrphans ==
    [][last'.op = "cleanup_orphaned_references" =>
        /\ DOMAIN documents' = DOMAIN documents
        /\ \A t \in DOMAIN documents :
               documents'[t] = SelectSeq(documents[t],
                                         LAMBDA d : d.file_path \in DOMAIN blobs)
        /\ last'.ret = Cardinality({<<t, i>> \in (DOMAIN documents) \X (1..Cardinality(Files)) :
                                        i \in Orphans(t)})
        /\ \A t \in (DOMAIN tenants) \cap (DOMAIN documents) :
               tenants'[t].document_count = Len(documents[t]) - Cardinality(Orphans(t))
        /\ blobs' = blobs]_vars

\* two records were dropped, of two tenants, and a record was kept
C16_Witness ==
    /\ last.op = "cleanup_orphaned_references"
    /\ last.ret = 2
    /\ \E t \in DOMAIN tenants : tenants[t].document_count = 1
    /\ \E t \in DOMAIN tenants : tenants[t].document_count = 0

(***************************************************************************)
(* Retrieval: retrieve_context over the states of the retriever's vector   *)
(* store.                                                                  *)
(***************************************************************************)
\* the queries of the retriever: those of the store and one of blanks only
RetrieverQueries == Queries \cup {<<0>>}

\* the metadata filters retrieve_context is called with: none, a filename to
\* match; retrieve_context_from_documents calls it with filenames to be among
RetrievalFilters ==
    {NoFilter,
     [x \in {"source"} |-> [list |-> FALSE, value |-> "a.txt"]]}

DocumentNames == {<<>>, <<"a.txt">>}

RRetrieveContext ==
    \E t \in Tenants, q \in RetrieverQueries :
    \E ranking \in Rankings(IndexIn(Store, t), q) :
    \E k \in Ks, use_hybrid \in BOOLEAN, metadata_filter \in RetrievalFilters :
    \E r \in {RetrieveContext(Store, embedding_model, q, t, k, use_hybrid, metadata_filter,
                               ranking)} :
           /\ last' = [op |-> "retrieve_context", tenant |-> t, k |-> k,
                       use_hybrid |-> use_hybrid, metadata_filter |-> metadata_filter,
                       results |-> r.results, ret |-> r.ret]
           /\ UNCHANGED <<peerVars, vsVars, tmVars, deleted, routerVars>>

\* the tenants that have uploaded
Uploaders == {u[1] : u \in RetrieverUploads}

RRetrieveContextFromDocuments ==
    \E t \in Uploaders, q \in Queries :
    \E ranking \in Rankings(IndexIn(Store, t), q) :
    \E k \in Ks, use_hybrid \in BOOLEAN, document_names \in DocumentNames :
    \E r \in {RetrieveContextFromDocuments(Store, embedding_model, q, document_names, t, k,
                                            use_hybrid, ranking)} :
           /\ last' = [op |-> "retrieve_context_from_documents", tenant |-> t, k |-> k,
                       use_hybrid |-> use_hybrid, document_names |-> document_names,
                       results |-> r.results, ret |-> r.ret]
           /\ UNCHANGED <<peerVars, vsVars, tmVars, deleted, routerVars>>

\* the files retrieval is from: one of a word, one that repeats it without a
\* blank, one of two words
RetrievalDocs == {<<1>>, <<1, 1>>, <<2, 2, 0, 1>>}

\* add_document of the retriever when nothing fails
RetrievalAddDocument ==
    \E u \in RetrieverUploads, d \in RetrievalDocs, file_type \in FileTypes :
    \E r \in {RetrieverAddDocument(Store, TM, embedding_model, d, u[2], file_type, u[1],
                                    {}, FALSE, FALSE)} :
           /\ TotalEntries(r.st) <= MaxEntries
           /\ tenant_indices' = r.st.idx
           /\ tenant_metadata' = r.st.meta
           /\ tenants' = r.tm.tenants
           /\ documents' = r.tm.documents
           /\ blobs' = r.tm.blobs
           /\ saved_data' = r.tm.saved
           /\ last' = [op |-> "add_document", tenant |-> u[1], file |-> u[2],
                       success |-> r.success]
           /\ disk' = DiskAfterAdd(disk, Store, embedding_model, ProcessFile(d, u[2], file_type, u[1]),
                                   u[1], TRUE, FALSE, {}, FALSE, "ok")
           /\ UNCHANGED <<peerVars, embedding_model, deleted, routerVars>>

\* delete_document of the retriever when no file operation fails
RetrievalDeleteDocument ==
    \E u \in RetrieverUploads :
    \E failing \in Failings(Store, u[2], u[1]) :
    \E r \in {RetrieverDeleteDocument(Store, TM, u[1], u[2], failing, FALSE, FALSE)} :
           /\ tenant_indices' = r.st.idx
           /\ tenant_metadata' = r.st.meta
           /\ tenants' = r.tm.tenants
           /\ documents' = r.tm.documents
           /\ blobs' = r.tm.blobs
           /\ saved_data' = r.tm.saved
           /\ last' = [op |-> "delete_document", tenant |-> u[1], file |-> u[2],
                       ret |-> r.ret]
           /\ disk' = DiskAfterRemove(disk, Store, u[2], u[1], failing, "ok")
           /\ UNCHANGED <<peerVars, embedding_model, deleted, routerVars>>

\* keyword_weight from 0.0 to 1.0, in tenths
Weights == 0..10

\* the chunk ids of results, in their order
ChunkIds(results) == [i \in 1..Len(results) |-> results[i].chunk_id]

\* hybrid_search called with one query once for every keyword_weight
HybridSearchAtEachWeight ==
    \E t \in Uploaders, q \in Queries, k \in Ks :
    \E ranking \in Rankings(IndexIn(Store, t), q) :
           /\ last' = [op |-> "hybrid_search", tenant |-> t, query |-> q, k |-> k,
                       candidates |-> Search(Store, embedding_model, q, t, k * 2, NoFilter,
                                             ranking),
                       ranked |-> [w \in Weights |->
                           ChunkIds(HybridSearch(Store, embedding_model, q, t, k, NoFilter,
                                                 w, ranking).results)]]
           /\ UNCHANGED <<peerVars, vsVars, tmVars, deleted, routerVars>>

NextRetrieval ==
    \/ RetrievalAddDocument
    \/ RetrievalDeleteDocument
    \/ RRetrieveContext
    \/ RRetrieveContextFromDocuments
    \/ HybridSearchAtEachWeight

SpecRetrieval == Init /\ [][NextRetrieval]_vars

\* C17: retrieve_context for a tenant without an index, or with an index
\* that holds no vector, returns chunks_found 0, an empty context and no
\* sources, whatever the query, the filter and use_hybrid.
C17_EmptyTenantEmptyResult ==
    (last.op \in {"retrieve_context", "retrieve_context_from_documents"}
        /\ (last.tenant \notin DOMAIN tenant_indices \/ tenant_indices[last.tenant] = <<>>)) =>
        /\ last.ret.chunks_found = 0
        /\ last.ret.context = <<>>
        /\ last.ret.sources = <<>>
        /\ last.results = <<>>

\* a hybrid retrieval with a query of blanks for a tenant whose index was
\* emptied
C17_Witness ==
    /\ last.op = "retrieve_context"
    /\ last.use_hybrid
    /\ last.tenant \in DOMAIN tenant_indices
    /\ tenant_indices[last.tenant] = <<>>
    /\ last.ret.chunks_found = 0

\* C18: what search or hybrid_search returned to the retriever holds at most
\* k results; with a filter on the source, every result has the source of the
\* filter, or one of its sources when the filter value is a list; the results
\* of hybrid_search are in descending order of hybrid_score; and
\* retrieve_context_from_documents with document names returns only passages
\* whose source is one of the names.
C18_AtMostKFilteredSorted ==
    (last.op \in {"retrieve_context", "retrieve_context_from_documents"}) =>
        LET results == last.results
        IN /\ Len(results) <= last.k
           /\ last.ret.chunks_found = Len(results)
           /\ (last.op = "retrieve_context" /\ "source" \in DOMAIN last.metadata_filter) =>
                 \A i \in 1..Len(results) :
                    IF last.metadata_filter["source"].list
                    THEN results[i].source \in last.metadata_filter["source"].value
                    ELSE results[i].source = last.metadata_filter["source"].value
           /\ last.use_hybrid =>
                 \A i, j \in 1..Len(results) :
                    i < j => results[i].hybrid_score >= results[j].hybrid_score
           /\ (last.op = "retrieve_context_from_documents" /\ last.document_names # <<>>) =>
                 \A i \in 1..Len(results) :
                    /\ \E n \in 1..Len(last.document_names) :
                           results[i].source = last.document_names[n]
                    /\ last.ret.sources[i].filename = results[i].source

\* a hybrid retrieval from a named document returned its passage and not the
\* passage of the tenant's other document, with room left under k
C18_Witness ==
    /\ last.op = "retrieve_context_from_documents"
    /\ last.document_names = <<"a.txt">>
    /\ last.use_hybrid
    /\ last.k = 2
    /\ Len(last.results) = 1
    /\ \E i \in 1..Len(tenant_metadata[last.tenant]) :
           tenant_metadata[last.tenant][i].source = "b.txt"

\* the position of chunk_id in the chunk ids ranked, 0 when it is not there
PositionOf(ranked, chunk_id) ==
    IF \E i \in 1..Len(ranked) : ranked[i] = chunk_id
    THEN CHOOSE i \in 1..Len(ranked) : ranked[i] = chunk_id
    ELSE 0

\* result v is ranked above result o
RankedAbove(ranked, v, o) ==
    PositionOf(ranked, o.chunk_id) # 0 =>
        /\ PositionOf(ranked, v.chunk_id) # 0
        /\ PositionOf(ranked, v.chunk_id) < PositionOf(ranked, o.chunk_id)

\* C19: of two candidates of hybrid_search, v holding every word of the query
\* and o holding fewer of them with the higher semantic score, v is ranked
\* above o for every keyword_weight from some weight of at most 1.0 on.
C19_KeywordWeightPrevails ==
    (last.op = "hybrid_search") =>
        LET query_words == Words(last.query)
            overlap(r) == Cardinality(query_words \cap Words(r.content))
            candidates == last.candidates
        IN \A a, b \in 1..Len(candidates) :
              LET v == candidates[a]
                  o == candidates[b]
              IN (/\ query_words # {}
                  /\ overlap(v) = Cardinality(query_words)
                  /\ overlap(o) < Cardinality(query_words)
                  /\ o.score > v.score) =>
                     \E from \in Weights : \A w \in Weights :
                        w >= from => RankedAbove(last.ranked[w], v, o)

\* the candidate with the higher semantic score is first at the default
\* weight and the candidate with the query's word is first at 1.0
C19_Witness ==
    /\ last.op = "hybrid_search"
    /\ last.k = 2
    /\ Len(last.candidates) = 2
    /\ last.candidates[1].score > last.candidates[2].score
    /\ Words(last.query) \subseteq Words(last.candidates[2].content)
    /\ Words(last.query) \cap Words(last.candidates[1].content) = {}
    /\ last.ranked[KeywordWeight][1] = last.candidates[1].chunk_id
    /\ last.ranked[10][1] = last.candidates[2].chunk_id

(***************************************************************************)
(* The chunkers applied to a text, by a processor of a given window.       *)
(***************************************************************************)
MaxTextLen == 6

RECURSIVE TextsOfLength(_)
TextsOfLength(n) ==
    IF n = 0 THEN {<<>>}
    ELSE {Append(t, u) : t \in TextsOfLength(n - 1), u \in {0, 1, 2}}

Texts == UNION {TextsOfLength(n) : n \in 1..MaxTextLen}

\* <<chunk_size, chunk_overlap>> of DocumentProcessor.__init__, scaled down:
\* the window of the model, and one whose overlap is more than a character
Windows == {<<ChunkSize, ChunkOverlap>>, <<4, 2>>}

\* the processor keeps no state: a call is taken from the initial state
CallTokenBasedChunking ==
    \E text \in Texts, w \in Windows, encode_fails \in BOOLEAN :
    \E r \in {TokenBasedChunking(text, w[1], w[2], encode_fails)} :
           /\ last.op = "init"
           /\ last' = [op |-> "token_based_chunking", text |-> text, chunk_size |-> w[1],
                       chunk_overlap |-> w[2], encode_fails |-> encode_fails,
                       units |-> r.units, windows |-> r.windows, chunks |-> r.chunks]
           /\ UNCHANGED <<peerVars, vsVars, tmVars, deleted, routerVars>>

CallCharacterBasedChunking ==
    \E text \in Texts, w \in Windows :
    \E r \in {SlidingWindow(text, w[1], w[2])} :
           /\ last.op = "init"
           /\ last' = [op |-> "character_based_chunking", text |-> text,
                       chunk_size |-> w[1], chunk_overlap |-> w[2], encode_fails |-> FALSE,
                       units |-> text, windows |-> r, chunks |-> r]
           /\ UNCHANGED <<peerVars, vsVars, tmVars, deleted, routerVars>>

MaxFileLen == 4

\* file contents: blanks, two characters, and the byte that is no UTF-8
RECURSIVE FilesOfLength(_)
FilesOfLength(n) ==
    IF n = 0 THEN {<<>>}
    ELSE {Append(t, u) : t \in FilesOfLength(n - 1), u \in {0, 1, 2, 3}}

FileContents == UNION {FilesOfLength(n) : n \in 0..MaxFileLen}

MimeTypes == {"text/plain", "application/pdf", "application/zip"}

PdfReads ==
    {UnreadPdf} \cup
    {[fails |-> FALSE, pages |-> p] : p \in {<<>>, <<(<<0>>)>>, <<(<<0>>), (<<1, 2>>)>>,
                                               <<(<<1>>), (<<2, 2, 0, 1>>)>>}}

CallProcessFile ==
    \E file_content \in FileContents, file_type \in MimeTypes :
    \E pdf \in (IF file_type = "application/pdf" THEN PdfReads ELSE {UnreadPdf}) :
           /\ last.op = "init"
           /\ last' = [op |-> "process_file", file_content |-> file_content,
                       file_type |-> file_type, pdf |-> pdf,
                       text_content |-> TextContent(file_content, "a.txt", file_type, pdf),
                       chunks |-> ChunksOfPages(TextContent(file_content, "a.txt", file_type, pdf),
                                                "a.txt", "t1")]
           /\ UNCHANGED <<peerVars, vsVars, tmVars, deleted, routerVars>>

NextChunker ==
    \/ CallTokenBasedChunking
    \/ CallCharacterBasedChunking
    \/ CallProcessFile

SpecChunker == Init /\ [][NextChunker]_vars

\* the units window c has in common with the window before it: chunk_overlap
\* of them, or the whole of a window that is shorter than that
SharedWith(windows, c, chunk_overlap) == Min(chunk_overlap, Len(windows[c]))

\* the windows joined, each without the units it shares with the one before
RECURSIVE JoinedWithoutOverlaps(_, _, _)
JoinedWithoutOverlaps(windows, c, chunk_overlap) ==
    IF c > Len(windows) THEN <<>>
    ELSE (IF c = 1 THEN windows[1]
          ELSE SubSeq(windows[c], SharedWith(windows, c, chunk_overlap) + 1,
                      Len(windows[c])))
         \o JoinedWithoutOverlaps(windows, c + 1, chunk_overlap)

ExtractionFailed ==
    \/ last.file_type = "text/plain" /\ ~Decodes(last.file_content)
    \/ last.file_type = "application/pdf" /\ last.pdf.fails
    \/ last.file_type \notin {"text/plain", "application/pdf"}

\* the PDF that cannot be read and whose bytes hold text
FoundText ==
    /\ last.file_type = "application/pdf"
    /\ last.pdf.fails
    /\ Len(Strip(DecodeIgnoringErrors(last.file_content))) > FoundTextThreshold

PlaceholderTexts ==
    {UnsupportedText, Placeholders.text_error, Placeholders.pdf_no_text, Placeholders.pdf_unable}

\* C21 as stated: every processed file gives at least one chunk, and the
\* file whose extraction fails or whose type is not recognised gives a
\* single chunk that holds a placeholder text.
C21_Original ==
    last.op = "process_file" =>
        /\ Len(last.chunks) >= 1
        /\ ExtractionFailed =>
              /\ Len(last.chunks) = 1
              /\ last.chunks[1].content \in PlaceholderTexts

\* C21 as amended: the file whose extraction fails or whose type is not
\* recognised gives one page and at least one chunk; it is a single chunk
\* holding a placeholder text, unless the file is a PDF that cannot be read
\* and whose bytes hold text, whose chunks are those of that text after a
\* notice; and only a text file that decodes to blank text gives no chunk.
C21_PlaceholderOnFailure ==
    last.op = "process_file" =>
        /\ ExtractionFailed =>
              /\ Len(last.text_content) = 1
              /\ Len(last.chunks) >= 1
              /\ \A c \in 1..Len(last.chunks) : last.chunks[c].metadata.page_number = 1
              /\ IF FoundText
                 THEN /\ last.chunks[1].content[1] = Placeholders.pdf_found[1]
                      /\ JoinedWithoutOverlaps([c \in 1..Len(last.chunks) |-> last.chunks[c].content],
                                               1, ChunkOverlap)
                            = Placeholders.pdf_found \o DecodeIgnoringErrors(last.file_content)
                 ELSE /\ Len(last.chunks) = 1
                      /\ last.chunks[1].content \in PlaceholderTexts
        /\ last.chunks = <<>> <=>
              /\ last.file_type = "text/plain"
              /\ Decodes(last.file_content)
              /\ IsBlank(last.file_content)

\* a PDF that cannot be read, with text in its bytes, in several chunks
C21_Witness ==
    /\ last.op = "process_file"
    /\ FoundText
    /\ Len(last.chunks) >= 2
    /\ last.file_content = <<1, 3, 2, 1>>

(***************************************************************************)
(* The vector store and its files: calls whose writes may fail, and a      *)
(* VectorStore constructed anew on the same storage.                       *)
(***************************************************************************)
\* a tenant id as the pieces str.replace tells apart
Parts(tenant_id) == IF tenant_id = "t1_index" THEN <<"t1", "_index">> ELSE <<tenant_id>>

\* the tenant id of pieces
Joined(parts) == IF parts = <<"t1", "_index">> THEN "t1_index" ELSE parts[1]

\* index_file.stem.replace("_index", "") for the file <tenant>_index.faiss:
\* every "_index" of the stem is taken out
TenantOfIndexFile(tenant_id) ==
    Joined(SelectSeq(Parts(tenant_id) \o <<"_index">>, LAMBDA part : part # "_index"))

\* _load_indices.  unreadable: the tenants whose index file read_index does
\* not read; pick: for a tenant id, the file of that id the glob gives last
LoadIndices(dk, unreadable, pick) ==
    LET read == DOMAIN dk.idx \ unreadable
        ids == {TenantOfIndexFile(file) : file \in read}
    IN [idx |-> [tenant_id \in ids |-> dk.idx[pick[tenant_id]]],
        meta |-> [tenant_id \in ids |->
                    IF tenant_id \in DOMAIN dk.meta THEN dk.meta[tenant_id] ELSE <<>>]]

\* the orders of the glob, as the file that is read last for each tenant id
Picks(dk, unreadable) ==
    LET read == DOMAIN dk.idx \ unreadable
        ids == {TenantOfIndexFile(file) : file \in read}
    IN {pick \in [ids -> read] : \A tenant_id \in ids : TenantOfIndexFile(pick[tenant_id]) = tenant_id}

PersistenceUploads == {<<"t1", "a.txt">>, <<"t1_index", "a.txt">>}
PersistenceDocs == {<<1>>, <<2>>}
\* <<replace_existing, clear_all>>
PersistenceFlags == {<<TRUE, FALSE>>}

PAddDocuments ==
    \E u \in PersistenceUploads, d \in PersistenceDocs \cup {<<0>>}, fl \in PersistenceFlags :
    \E embed_fails \in BOOLEAN, write \in WriteOutcomes :
    \E chunks \in {ProcessFile(d, u[2], "text/plain", u[1])} :
    \E r \in {AddDocuments(Store, embedding_model, chunks, u[1], fl[1], fl[2], {}, embed_fails)} :
           /\ TotalEntries(r.st) <= MaxEntries
           /\ TotalOver(r.st.idx, DOMAIN r.st.idx) <= MaxEntries
           /\ tenant_indices' = r.st.idx
           /\ tenant_metadata' = r.st.meta
           /\ disk' = DiskAfterAdd(disk, Store, embedding_model, chunks, u[1], fl[1], fl[2],
                                   {}, embed_fails, write)
           /\ last' = [op |-> "add_documents", tenant |-> u[1], file |-> u[2],
                       ret |-> r.ret]
           /\ UNCHANGED <<peerVars, embedding_model, deleted, tmVars, routerVars>>

PRemoveDocumentsByFilename ==
    \E u \in PersistenceUploads, write \in WriteOutcomes :
    \E r \in {RemoveDocumentsByFilename(Store, u[2], u[1], {})} :
           /\ tenant_indices' = r.st.idx
           /\ tenant_metadata' = r.st.meta
           /\ disk' = DiskAfterRemove(disk, Store, u[2], u[1], {}, write)
           /\ last' = [op |-> "remove", tenant |-> u[1], file |-> u[2],
                       ret |-> r.ret]
           /\ UNCHANGED <<peerVars, embedding_model, deleted, tmVars, routerVars>>

\* VectorStore.__init__ on the storage the files are in
PLoadIndices ==
    \E unreadable \in SUBSET DOMAIN disk.idx :
    \E pick \in Picks(disk, unreadable) :
    \E st \in {LoadIndices(disk, unreadable, pick)} :
           /\ tenant_indices' = st.idx
           /\ tenant_metadata' = st.meta
           /\ last' = [op |-> "load_indices", unreadable |-> unreadable]
           /\ UNCHANGED <<peerVars, embedding_model, disk, deleted, tmVars, routerVars>>

NextPersistence ==
    \/ PAddDocuments
    \/ PRemoveDocumentsByFilename
    \/ PLoadIndices

SpecPersistence == Init /\ [][NextPersistence]_vars

\* C22: when add_documents or a removal by filename returns true, the files
\* of the tenant hold the index and the metadata the store holds in memory,
\* also when a write to the files fails.
C22_FlushedBeforeReturn ==
    (last.op \in {"add_documents", "remove"} /\ last.ret /\ last.tenant \in DOMAIN tenant_indices) =>
        /\ last.tenant \in DOMAIN disk.idx
        /\ last.tenant \in DOMAIN disk.meta
        /\ disk.idx[last.tenant] = tenant_indices[last.tenant]
        /\ disk.meta[last.tenant] = tenant_metadata[last.tenant]

\* C23: a store constructed on the files holds, for every tenant that has
\* both files and whose index file is read, under the same tenant id, the
\* metadata list and the index entries of the files, whatever the files of
\* the other tenants are.
C23_ReloadRoundTrip ==
    last.op = "load_indices" =>
        \A tenant_id \in (DOMAIN disk.idx \cap DOMAIN disk.meta) \ last.unreadable :
            /\ tenant_id \in DOMAIN tenant_indices
            /\ tenant_id \in DOMAIN tenant_metadata
            /\ tenant_indices[tenant_id] = disk.idx[tenant_id]
            /\ tenant_metadata[tenant_id] = disk.meta[tenant_id]

\* C25: an add_documents call that returns false leaves the index entries
\* and the metadata list of the tenant, the chunks of the file among them,
\* and the files as they were.
C25_FailedAddChangesNothing ==
    [][(last'.op = "add_documents" /\ ~last'.ret) =>
          \E tenant_id \in {last'.tenant}, after \in {Store'} :
              /\ IndexIn(after, tenant_id) = IndexIn(Store, tenant_id)
              /\ EntriesIn(after, tenant_id) = EntriesIn(Store, tenant_id)
              /\ CountSource(EntriesIn(after, tenant_id), last'.file)
                    = CountSource(EntriesIn(Store, tenant_id), last'.file)
              /\ UNCHANGED disk]_vars

\* C29: create_tenant with a tenant id that is in the catalog keeps the
\* documents listed for that tenant.
C29_CreateTenantKeepsDocuments ==
    [][(last'.op = "tm_create_tenant" /\ last'.tenant \in DOMAIN tenants) =>
          GetTenantDocuments(TM, last'.tenant) = documents'[last'.tenant]]_vars

\* C30: when the context carries uploaded files, whatever the message, the
\* router selects the Document Q&A agent with confidence 0.9 and the call
\* does not pass through the fallback: no agent scores above 0.9, and the
\* Document Q&A agent is the first of the agents.
C30_UploadsRouteToDocumentQA ==
    (Len(trace) >= 1 /\ state.context.uploaded_files # <<>>) =>
        /\ state.selected_agent = "Document Q&A Agent"
        /\ state.confidence = HighConfidence
        /\ pc # "fallback_response"
        /\ \A i \in 1..Len(trace) : trace[i] # "fallback_response"
        /\ agents[1] = "Document Q&A Agent"
        /\ \A i \in 1..Len(agents) :
              CanHandle(agents[i], state.message, state.context) <= HighConfidence

\* a message with a high keyword of the API agent and of the analytics
\* agent, with an uploaded file, after the agent ran
C30_Witness ==
    /\ trace = <<"route_to_agent", "execute_selected_agent", "Document Q&A Agent">>
    /\ state.context.uploaded_files # <<>>
    /\ state.message = {"api", "report"}
    /\ state.selected_agent = "Document Q&A Agent"
    /\ APIExecutionCanHandle(state.message, state.context) = HighConfidence
    /\ AnalyticsCanHandle(state.message, state.context) = HighConfidence

(***************************************************************************)
(* The retriever when every call reports success: add_document answers     *)
(* success, delete_document returns true.                                  *)
(***************************************************************************)
SuccessfulAddDocument == RAddDocument /\ last'.success

SuccessfulDeleteDocument == RDeleteDocument /\ last'.ret

NextSuccessful ==
    \/ SuccessfulAddDocument
    \/ SuccessfulDeleteDocument

SpecSuccessful == Init /\ [][NextSuccessful]_vars

\* C26: after add_document and delete_document calls that all reported
\* success, the filenames with entries in the vector index of a tenant are
\* the filenames with a record in the tenant store, and chunks_created of
\* each record is the number of index entries of its filename.
C26_IndexMatchesCatalog ==
    \A tenant_id \in Tenants :
        LET docs == GetTenantDocuments(TM, tenant_id)
        IN /\ Sources(EntriesIn(Store, tenant_id))
                = {docs[i].filename : i \in 1..Len(docs)}
           /\ \A i \in 1..Len(docs) :
                 docs[i].chunks_created
                    = CountSource(EntriesIn(Store, tenant_id), docs[i].filename)

(***************************************************************************)
(* Two TenantManager instances on one storage: the one the application     *)
(* constructs (app_tm) and the one of the Retriever (tenants, documents).  *)
(* Each holds the catalog it loaded and writes all of it at every save.    *)
(***************************************************************************)
\* the manager of the application as a value
AppTM == [tenants |-> app_tm.tenants, documents |-> app_tm.documents, blobs |-> blobs,
          saved |-> saved_data]

\* get_tenant: a tenant that is found is saved with its new last_accessed
GetTenant(tm, tenant_id) ==
    IF tenant_id \in DOMAIN tm.tenants
    THEN [tm |-> SaveData(tm), ret |-> tenant_id]
    ELSE [tm |-> tm, ret |-> None]

AppCreateTenant ==
    \E t \in Tenants, name \in Names :
    \E r \in {CreateTenant(AppTM, name, t)} :
           /\ app_tm' = [tenants |-> r.tm.tenants, documents |-> r.tm.documents]
           /\ saved_data' = r.tm.saved
           /\ last' = [op |-> "app_create_tenant", tenant |-> t, file |-> None]
           /\ UNCHANGED <<agent_store, vsVars, tenants, documents, blobs, deleted, routerVars>>

AppGetTenant ==
    \E t \in Tenants :
    \E r \in {GetTenant(AppTM, t)} :
           /\ app_tm' = [tenants |-> r.tm.tenants, documents |-> r.tm.documents]
           /\ saved_data' = r.tm.saved
           /\ last' = [op |-> "app_get_tenant", tenant |-> t, file |-> None]
           /\ UNCHANGED <<agent_store, vsVars, tenants, documents, blobs, deleted, routerVars>>

NextInstances ==
    \/ AppCreateTenant
    \/ AppGetTenant
    \/ TMCreateTenant
    \/ TMAddDocument
    \/ TMDeleteDocument

SpecInstances == Init /\ [][NextInstances]_vars

\* the records of the files documents.json lists for a tenant
SavedFiles(saved, tenant_id) ==
    IF tenant_id \in DOMAIN saved.documents
    THEN {saved.documents[tenant_id][i].filename : i \in 1..Len(saved.documents[tenant_id])}
    ELSE {}

\* C27: with two TenantManager instances on one storage, a tenant or a
\* document record in the saved catalog is still in it after any saving call
\* of either instance, but for the document a delete_document call deletes
\* and the documents of the tenant a create_tenant call creates.
C27_SavedRecordsSurvive ==
    [][/\ \A tenant_id \in DOMAIN saved_data.tenants : tenant_id \in DOMAIN saved_data'.tenants
       /\ \A tenant_id \in DOMAIN saved_data.documents :
             \A filename \in SavedFiles(saved_data, tenant_id) :
                \/ filename \in SavedFiles(saved_data', tenant_id)
                \/ /\ last'.op = "tm_delete_document"
                   /\ last'.tenant = tenant_id
                   /\ last'.file = filename
                \/ /\ last'.op \in {"tm_create_tenant", "app_create_tenant"}
                   /\ last'.tenant = tenant_id]_vars

(***************************************************************************)
(* Construction on the storage: a Retriever of the application, and the    *)
(* VectorStore and the Retriever the Document Q&A agent constructs for     *)
(* itself (agent_store: its index, its metadata, and documents, the        *)
(* catalog of its TenantManager).                                          *)
(***************************************************************************)
\* TenantManager.__init__: the catalog is the one of the files
LoadData(tm) == [tm EXCEPT !.tenants = tm.saved.tenants, !.documents = tm.saved.documents]

\* the loop over the documents of a tenant.  r: the store and the disk so
\* far; unread: the files get_document_content cannot read
RECURSIVE LoadTenantDocuments(_, _, _, _, _, _)
LoadTenantDocuments(r, docs, tenant_id, tm, model, unread) ==
    IF docs = <<>> THEN r
    ELSE LET doc == Head(docs)
             file_path == GetTenantDocuments(tm, tenant_id)[
                              ExistingDocIndex(GetTenantDocuments(tm, tenant_id),
                                               doc.filename)].file_path
             read == file_path \in DOMAIN tm.blobs /\ file_path \notin unread
             file_content == IF read THEN tm.blobs[file_path] ELSE <<>>
             chunks == ProcessFile(file_content, doc.filename, doc.file_type, tenant_id)
             added == [st |-> AddDocuments(r.st, model, chunks, tenant_id, TRUE, FALSE,
                                           {}, FALSE).st,
                       dk |-> DiskAfterAdd(r.dk, r.st, model, chunks, tenant_id, TRUE,
                                           FALSE, {}, FALSE, "ok")]
         IN LoadTenantDocuments(IF file_content # <<>> /\ chunks # <<>> THEN added ELSE r,
                                Tail(docs), tenant_id, tm, model, unread)

\* _load_existing_documents, over the tenants still to visit
RECURSIVE LoadExistingDocuments(_, _, _, _, _)
LoadExistingDocuments(r, tenant_ids, tm, model, unread) ==
    IF tenant_ids = {} THEN r
    ELSE LET tenant_id == CHOOSE t \in tenant_ids : TRUE
         IN LoadExistingDocuments(
                LoadTenantDocuments(r, GetTenantDocuments(tm, tenant_id), tenant_id, tm,
                                    model, unread),
                tenant_ids \ {tenant_id}, tm, model, unread)

\* VectorStore() and RAGRetriever(vector_store) on the storage
Construct(dk, tm, model, unreadable, pick, unread) ==
    LET loaded == LoadData(tm)
        r == LoadExistingDocuments([st |-> LoadIndices(dk, unreadable, pick), dk |-> dk],
                                   DOMAIN loaded.tenants, loaded, model, unread)
    IN [st |-> r.st, dk |-> r.dk, tm |-> loaded]

StartupUploads == {<<"t1", "a.txt">>, <<"t1", "b.txt">>}
StartupTenants == {"t1"}
StartupDocs == {<<1>>, <<0>>}
StartupQueries == {<<1>>}

StartupCreateTenant ==
    \E t \in StartupTenants, name \in Names :
    \E r \in {CreateTenant(TM, name, t)} :
           /\ tenants' = r.tm.tenants
           /\ documents' = r.tm.documents
           /\ blobs' = r.tm.blobs
           /\ saved_data' = r.tm.saved
           /\ last' = [op |-> "create_tenant", tenant |-> t]
           /\ UNCHANGED <<peerVars, vsVars, deleted, routerVars>>

\* add_document of the application's Retriever; a write of the vector
\* store's files may fail
StartupAddDocument ==
    \E u \in StartupUploads, d \in StartupDocs, write \in WriteOutcomes :
    \E r \in {RetrieverAddDocument(Store, TM, embedding_model, d, u[2], "text/plain", u[1],
                                    {}, FALSE, FALSE)} :
           /\ TotalEntries(r.st) <= MaxEntries
           /\ TotalOver(r.st.idx, DOMAIN r.st.idx) <= MaxEntries
           /\ tenant_indices' = r.st.idx
           /\ tenant_metadata' = r.st.meta
           /\ tenants' = r.tm.tenants
           /\ documents' = r.tm.documents
           /\ blobs' = r.tm.blobs
           /\ saved_data' = r.tm.saved
           /\ disk' = DiskAfterAdd(disk, Store, embedding_model,
                                   ProcessFile(d, u[2], "text/plain", u[1]), u[1], TRUE,
                                   FALSE, {}, FALSE, write)
           /\ deleted' = IF r.success THEN deleted \ {u} ELSE deleted
           /\ last' = [op |-> "add_document", tenant |-> u[1], file |-> u[2],
                       success |-> r.success]
           /\ UNCHANGED <<peerVars, embedding_model, routerVars>>

\* delete_document of the application's Retriever
StartupDeleteDocument ==
    \E u \in StartupUploads :
    \E r \in {RetrieverDeleteDocument(Store, TM, u[1], u[2], {}, FALSE, FALSE)} :
           /\ tenant_indices' = r.st.idx
           /\ tenant_metadata' = r.st.meta
           /\ tenants' = r.tm.tenants
           /\ documents' = r.tm.documents
           /\ blobs' = r.tm.blobs
           /\ saved_data' = r.tm.saved
           /\ disk' = DiskAfterRemove(disk, Store, u[2], u[1], {}, "ok")
           /\ deleted' = IF r.ret THEN deleted \cup {u} ELSE deleted
           /\ last' = [op |-> "delete_document", tenant |-> u[1], file |-> u[2],
                       ret |-> r.ret]
           /\ UNCHANGED <<peerVars, embedding_model, routerVars>>

\* the application started anew: its VectorStore and its Retriever
ConstructRetriever ==
    \E unread \in SUBSET DOMAIN blobs :
    \E pick \in Picks(disk, {}) :
    \E r \in {Construct(disk, TM, embedding_model, {}, pick, unread)} :
           /\ TotalOver(r.st.idx, DOMAIN r.st.idx) <= MaxEntries
           /\ tenant_indices' = r.st.idx
           /\ tenant_metadata' = r.st.meta
           /\ disk' = r.dk
           /\ tenants' = r.tm.tenants
           /\ documents' = r.tm.documents
           /\ last' = [op |-> "construct_retriever", unread |-> unread]
           /\ UNCHANGED <<peerVars, embedding_model, blobs, saved_data, deleted, routerVars>>

\* DocumentQAAgent.__init__ when the RAG imports are available
ConstructAgent ==
    \E pick \in Picks(disk, {}) :
    \E r \in {Construct(disk, TM, embedding_model, {}, pick, {})} :
           /\ TotalOver(r.st.idx, DOMAIN r.st.idx) <= MaxEntries
           /\ agent_store' = [idx |-> r.st.idx, meta |-> r.st.meta,
                              documents |-> r.tm.documents]
           /\ disk' = r.dk
           /\ last' = [op |-> "construct_agent"]
           /\ UNCHANGED <<app_tm, embedding_model, tenant_indices, tenant_metadata, tmVars,
                          deleted, routerVars>>

\* k of the retrievals of _process_with_rag
AgentK == 5

\* the filenames _extract_document_names may find in a message
MentionedDocuments(tenant_id) ==
    LET docs == IF tenant_id \in DOMAIN agent_store.documents
                THEN agent_store.documents[tenant_id] ELSE <<>>
    IN {<<>>} \cup {<<docs[i].filename>> : i \in 1..Len(docs)}

\* _process_with_rag with no uploaded file, as far as the retrieval
AgentProcessWithRag ==
    \E t \in StartupTenants, q \in StartupQueries :
    \E document_names \in MentionedDocuments(t) :
    \E ranking \in Rankings(IndexIn(agent_store, t), q) :
    \E r \in {RetrieveContextFromDocuments(agent_store, embedding_model, q, document_names,
                                            t, AgentK, TRUE, ranking)} :
           /\ last' = [op |-> "process_with_rag", tenant |-> t,
                       document_names |-> document_names, results |-> r.results,
                       ret |-> r.ret]
           /\ UNCHANGED <<peerVars, vsVars, tmVars, deleted, routerVars>>

NextStartup ==
    \/ StartupCreateTenant
    \/ StartupAddDocument
    \/ StartupDeleteDocument
    \/ ConstructRetriever

SpecStartup == Init /\ [][NextStartup]_vars

NextAgent ==
    \/ StartupCreateTenant
    \/ StartupAddDocument
    \/ StartupDeleteDocument
    \/ ConstructAgent
    \/ AgentProcessWithRag

SpecAgent == Init /\ [][NextAgent]_vars

\* the chunks of a stored document, <<>> when its bytes cannot be read
StoredChunks(doc, unread) ==
    IF doc.file_path \in DOMAIN blobs /\ doc.file_path \notin unread
    THEN ProcessFile(blobs[doc.file_path], doc.filename, doc.file_type, doc.tenant_id)
    ELSE <<>>

\* C24: after a Retriever is constructed with an embedding model, for every
\* tenant of the tenant store, every stored document whose bytes are read
\* and give chunks has as many metadata entries as chunks, and the index of
\* the tenant holds one vector for each metadata entry.
C24_ReingestedExactlyOnce ==
    (last.op = "construct_retriever" /\ embedding_model) =>
        \A tenant_id \in DOMAIN tenants :
            \A i \in 1..Len(GetTenantDocuments(TM, tenant_id)) :
                LET doc == GetTenantDocuments(TM, tenant_id)[i]
                IN StoredChunks(doc, last.unread) # <<>> =>
                      /\ CountSource(EntriesIn(Store, tenant_id), doc.filename)
                            = Len(StoredChunks(doc, last.unread))
                      /\ Len(IndexIn(Store, tenant_id)) = Len(EntriesIn(Store, tenant_id))

\* C28: a query the Document Q&A agent answers holds no passage of a
\* document that delete_document of the application's Retriever deleted
\* and that was not added again since.
C28_NoPassageOfDeletedDocument ==
    last.op = "process_with_rag" =>
        \A i \in 1..Len(last.results) : <<last.tenant, last.results[i].source>> \notin deleted

====
